---- MODULE Spec2Model ----
(***************************************************************************)
(* A model of the flaky-test detector: the local detection session         *)
(* (detector.py: FlakyTest, FlakyDetector), the CI-history aggregate and    *)
(* the two CI importers (ci_analyzer.py), the root-cause analyzer           *)
(* (analyzer.py) and the repair suggester (suggester.py).                   *)
(*                                                                         *)
(* Representation choices.                                                 *)
(*  - A pytest node id "a.py::test_x" is the sequence of its "::"-separated *)
(*    segments, <<"a.py", "test_x">>; str.split("::") is then the sequence  *)
(*    itself and "'::' in s" is Len(s) >= 2.                                *)
(*  - A Python dict is the sequence of its values in insertion order (the  *)
(*    order dict.values() iterates in); the key is a field of the value.    *)
(*  - A float ratio is the exact fraction <<numerator, denominator>>.  The  *)
(*    scores are k/total with small integers, doubling a float is exact    *)
(*    and IEEE division is monotone, so comparisons of the fractions agree  *)
(*    with comparisons of the floats the code computes.                    *)
(***************************************************************************)
EXTENDS Integers, Sequences, FiniteSets, TLC

----------------------------------------------------------------------------
(* Bounds of the model *)

\* largest run count N given to FlakyDetector(test_path, runs=N)
MaxRuns == 2

\* longest outcome history of one test followed in SpecAgg
MaxOutcomes == 4

----------------------------------------------------------------------------
(* Program constants and input alphabets *)

\* detector.py:151  longrepr[:200]
ErrorPrefixLen == 200

\* Outcome strings pytest-json-report writes into "outcome".  The code stores
\* the string unchecked (detector.py:155), so an outcome outside the four it
\* counts is part of the input space; "xfailed" stands for those.
Outcomes == {"passed", "failed", "error", "skipped", "xfailed"}

\* The four statuses of the data model (detector.py:18)
Statuses == {"passed", "failed", "error", "skipped"}

\* Node ids of the suite under test (two files, the same function name)
TestIds == {<<"a.py", "test_x">>, <<"b.py", "test_x">>}

\* The longrepr text of a failing entry, as a sequence of characters
LongRepr == <<"E", "r", "r">>

Min(a, b) == IF a <= b THEN a ELSE b

----------------------------------------------------------------------------
(* Fractions *)

Rat(n, d) == <<n, d>>
RatLeq(a, b) == a[1] * b[2] <= b[1] * a[2]
RatLess(a, b) == a[1] * b[2] < b[1] * a[2]
RatEq(a, b) == a[1] * b[2] = b[1] * a[2]
\* Python's min(a, b): b only when b < a
RatMin(a, b) == IF RatLess(b, a) THEN b ELSE a
RatTimes(a, k) == <<a[1] * k, a[2]>>

----------------------------------------------------------------------------
(* detector.py: TestResult, FlakyTest *)

\* TestResult(test_id, outcome, duration, error_message); duration is never
\* read by the detector and is left out.
TestResult(test_id, outcome, error_message) ==
    [test_id |-> test_id, outcome |-> outcome, error_message |-> error_message]

\* FlakyTest(test_id, test_file, test_function) with the dataclass defaults
FlakyTest(test_id, test_file, test_function) ==
    [test_id |-> test_id, test_file |-> test_file,
     test_function |-> test_function,
     pass_count |-> 0, fail_count |-> 0, error_count |-> 0, skip_count |-> 0,
     outcomes |-> <<>>, error_messages |-> <<>>]

Range(s) == {s[i] : i \in DOMAIN s}

\* Mutant of flakiness_score: the final doubling is left out
flakiness_score_NoDoubling(t) ==
    LET total == Len(t.outcomes) IN
    IF total = 0 THEN Rat(0, 1)
    ELSE RatMin(Rat(t.pass_count, total), Rat(t.fail_count, total))

\* Mutant of flakiness_score: skipped runs are left out of the total
flakiness_score_SkipsExcluded(t) ==
    LET total == Len(t.outcomes) - t.skip_count IN
    IF total = 0 THEN Rat(0, 1)
    ELSE LET pass_ratio == Rat(t.pass_count, total)
             fail_ratio == Rat(t.fail_count, total)
         IN RatTimes(RatMin(pass_ratio, fail_ratio), 2)

\* Mutant of flakiness_score: errors are counted with the failures
flakiness_score_ErrorsAsFailures(t) ==
    LET total == Len(t.outcomes) IN
    IF total = 0 THEN Rat(0, 1)
    ELSE LET pass_ratio == Rat(t.pass_count, total)
             fail_ratio == Rat(t.fail_count + t.error_count, total)
         IN RatTimes(RatMin(pass_ratio, fail_ratio), 2)

\* FlakyTest.flakiness_score
flakiness_score(t) ==
    LET total == Len(t.outcomes) IN
    IF total = 0 THEN Rat(0, 1)
    ELSE LET pass_ratio == Rat(t.pass_count, total)
             fail_ratio == Rat(t.fail_count, total)
         IN RatTimes(RatMin(pass_ratio, fail_ratio), 2)

\* Mutant of is_flaky: an error outcome is not taken as a failure
is_flaky_FailedOnly(t) ==
    LET unique_outcomes == Range(t.outcomes)
        has_pass == "passed" \in unique_outcomes
        has_fail == "failed" \in unique_outcomes
    IN has_pass /\ has_fail

\* FlakyTest.is_flaky
is_flaky(t) ==
    LET unique_outcomes == Range(t.outcomes)
        has_pass == "passed" \in unique_outcomes
        has_fail == "failed" \in unique_outcomes \/ "error" \in unique_outcomes
    IN has_pass /\ has_fail

\* Mutant of outcomes_str: only a failed outcome is written F
outcomes_str_FailedOnly(outcomes) ==
    [i \in DOMAIN outcomes |-> IF outcomes[i] = "failed" THEN "F" ELSE "P"]

\* Mutant of outcomes_str: a skipped outcome is written S
outcomes_str_SkipLetter(outcomes) ==
    [i \in DOMAIN outcomes |-> IF outcomes[i] = "passed" THEN "P"
                               ELSE IF outcomes[i] = "skipped" THEN "S"
                               ELSE "F"]

\* ''.join('P' if o == 'passed' else 'F' for o in self.outcomes)
outcomes_str(outcomes) ==
    [i \in DOMAIN outcomes |-> IF outcomes[i] = "passed" THEN "P" ELSE "F"]

\* str.count(c)
Count(s, c) == Cardinality({i \in DOMAIN s : s[i] = c})

\* str.startswith(c) for a one-character prefix
StartsWith(s, c) == Len(s) >= 1 /\ s[1] = c

\* Mutant of failure_pattern: the rules on the counts are tried before the
\* rules on the first letter
failure_pattern_CountsFirst(t) ==
    IF ~is_flaky(t) THEN "stable"
    ELSE LET s == outcomes_str(t.outcomes) IN
         IF Count(s, "F") < 3 THEN "rarely_failing"
         ELSE IF Count(s, "P") < 3 THEN "rarely_passing"
         ELSE IF StartsWith(s, "F") /\ "P" \in Range(s) THEN "initially_failing"
         ELSE IF StartsWith(s, "P") /\ "F" \in Range(s) THEN "initially_passing"
         ELSE "intermittent"

\* FlakyTest.failure_pattern
failure_pattern(t) ==
    IF ~is_flaky(t) THEN "stable"
    ELSE LET s == outcomes_str(t.outcomes) IN
         IF StartsWith(s, "F") /\ "P" \in Range(s) THEN "initially_failing"
         ELSE IF StartsWith(s, "P") /\ "F" \in Range(s) THEN "initially_passing"
         ELSE IF Count(s, "F") < 3 THEN "rarely_failing"
         ELSE IF Count(s, "P") < 3 THEN "rarely_passing"
         ELSE "intermittent"

----------------------------------------------------------------------------
(* detector.py: FlakyDetector *)

VARIABLES
    runs,        \* self.runs
    temp_dir,    \* self.temp_dir, the directory tempfile.mkdtemp() made
    results,     \* self.results: the FlakyTest values in insertion order
    run_num,     \* iterations of run_detection's loop completed so far
    pc,          \* "loop": in run_detection; "returned"; then the caller's
                 \* queries, "got_flaky" and "got_stable" (cli.py:54-55)
    files,       \* the files under temp_dir: path -> content
    invoked,     \* the --json-report-file path of each runner invocation
    flaky_ret,   \* what get_flaky_tests() returned
    stable_ret,  \* what get_stable_tests() returned
    workflow_runs,  \* the CI provider's executions, each with its log
    test_results,   \* what GitHubActionsAnalyzer.analyze returned for them
    analyzer_test_file,  \* RootCauseAnalyzer.test_file, as it is on disk
    tree,           \* RootCauseAnalyzer.tree
    test_function_name,  \* the argument of RootCauseAnalyzer.analyze
    causes,         \* what RootCauseAnalyzer.analyze returned
    apc,            \* "constructed", then "analyzed" once analyze returned
    given_causes,   \* the argument of RepairSuggester.suggest_repairs
    suggestions,    \* what RepairSuggester.suggest_repairs returned
    spc,            \* "ready", then "suggested" once suggest_repairs returned
    provider,       \* the CI provider behind the API: its executions and what
                    \* each request about them is answered with
    api_calls,      \* the requests one CI import has issued, in order
    idx,            \* executions the loop of the CI import has gone through
    ipc,            \* "start", "loop", "returned" (analyze returned), then
                    \* "filtered" (get_flaky_tests returned)
    min_runs,       \* the min_runs given to get_flaky_tests
    ci_flaky_tests  \* what get_flaky_tests(test_results, min_runs) returned

detectorVars == <<runs, temp_dir, results, run_num, pc, files, invoked,
                  flaky_ret, stable_ret>>

ciVars == <<workflow_runs, test_results>>

analyzerVars == <<analyzer_test_file, tree, test_function_name, causes, apc>>

\* the variables of the tools around the detection session
suggesterVars == <<given_causes, suggestions, spc>>

importVars == <<provider, api_calls, idx, ipc, min_runs, ci_flaky_tests>>

toolVars == <<analyzerVars, suggesterVars, importVars>>

vars == <<detectorVars, ciVars, toolVars>>

\* No RootCauseAnalyzer has been constructed
AnalyzerUnused ==
    /\ analyzer_test_file = [exists |-> FALSE, syntax_ok |-> FALSE, defs |-> <<>>]
    /\ tree = [parsed |-> FALSE, body |-> <<>>]
    /\ test_function_name = ""
    /\ causes = <<>>
    /\ apc = "unused"

\* No RepairSuggester has been asked
SuggesterUnused ==
    /\ given_causes = <<>>
    /\ suggestions = <<>>
    /\ spc = "unused"

\* No CI import has been started
ImportUnused ==
    /\ provider = [kind |-> "none", listing_ok |-> FALSE, pad |-> 0,
                   answers |-> <<>>]
    /\ api_calls = <<>>
    /\ idx = 0
    /\ ipc = "unused"
    /\ min_runs = 0
    /\ ci_flaky_tests = <<>>

\* The tools around the detection session before any of them is used
ToolsUnused == AnalyzerUnused /\ SuggesterUnused /\ ImportUnused

\* No FlakyDetector has been constructed
DetectorUnused ==
    /\ runs = 0
    /\ temp_dir = "tmp0"
    /\ results = <<>>
    /\ run_num = 0
    /\ pc = "unused"
    /\ files = <<>>
    /\ invoked = <<>>
    /\ flaky_ret = <<>>
    /\ stable_ret = <<>>

\* No detection session has been started and no CI history analyzed
SessionUnused ==
    /\ DetectorUnused
    /\ workflow_runs = <<>>
    /\ test_results = <<>>

\* id(self): fixed for the lifetime of the detector object
id_self == "id0"

\* Path(self.temp_dir) / f"report_{id(self)}.json"      (detector.py:116)
report_file == [dir |-> temp_dir, name |-> <<"report_", id_self, ".json">>]

\* Contents a file can have: a JSON document with a "tests" array, or text
\* that json.load rejects.
JsonReport(tests) == [kind |-> "json", tests |-> tests]
Garbage == [kind |-> "garbage", tests |-> <<>>]

\* One entry of the report's "tests" array
ReportEntry(nodeid, outcome) ==
    [nodeid |-> nodeid, outcome |-> outcome, longrepr |-> LongRepr]

ReportEntries == {ReportEntry(n, o) : n \in TestIds, o \in Outcomes}

\* The "tests" arrays a run of the suite can produce: each collected test at
\* most once, in any order.
TestsArrays ==
    {<<>>} \cup {<<e>> : e \in ReportEntries}
           \cup {p \in ReportEntries \X ReportEntries : p[1].nodeid # p[2].nodeid}

\* What one runner invocation does to the file it was told to write: nothing
\* (it died before writing), a complete report, or text that is not JSON.
RunnerWrites == {[wrote |-> FALSE, content |-> Garbage]}
                \cup {[wrote |-> TRUE, content |-> Garbage]}
                \cup {[wrote |-> TRUE, content |-> JsonReport(ts)] : ts \in TestsArrays}

\* The file system after the runner acted on `path`
WriteFile(fs, path, w) ==
    IF w.wrote
    THEN [p \in DOMAIN fs \cup {path} |-> IF p = path THEN w.content ELSE fs[p]]
    ELSE fs

\* s[:n]
Prefix(s, n) == SubSeq(s, 1, Min(Len(s), n))

\* FlakyDetector._execute_single_run after subprocess.run returned: decode
\* the report file into the list of TestResult.
RECURSIVE ExtractResults(_)
ExtractResults(tests) ==
    IF tests = <<>> THEN <<>>
    ELSE LET test == Head(tests)
             error_msg == IF test.outcome \in {"failed", "error"}
                          THEN Prefix(test.longrepr, ErrorPrefixLen)
                          ELSE <<>>
         IN <<TestResult(test.nodeid, test.outcome, error_msg)>>
            \o ExtractResults(Tail(tests))

_execute_single_run(fs, path) ==
    IF path \notin DOMAIN fs THEN <<>>           \* FileNotFoundError
    ELSE IF fs[path].kind # "json" THEN <<>>     \* json.JSONDecodeError
    ELSE ExtractResults(fs[path].tests)

\* The position of test_id's aggregate in the dict, 0 when absent
IndexOf(res, test_id) ==
    IF \E i \in DOMAIN res : res[i].test_id = test_id
    THEN CHOOSE i \in DOMAIN res : res[i].test_id = test_id
    ELSE 0

\* Mutant of RecordResult: the outcome is inserted at the front of the history
RecordResult_Prepend(res, result) ==
    LET test_id == result.test_id
        res1 == IF IndexOf(res, test_id) = 0
                THEN Append(res, FlakyTest(test_id, test_id[1], test_id[Len(test_id)]))
                ELSE res
        i == IndexOf(res1, test_id)
        t0 == [res1[i] EXCEPT !.outcomes = <<result.outcome>> \o @]
        t1 == IF result.outcome = "passed"
                THEN [t0 EXCEPT !.pass_count = @ + 1]
              ELSE IF result.outcome = "failed"
                THEN [t0 EXCEPT !.fail_count = @ + 1,
                                !.error_messages = Append(@, result.error_message)]
              ELSE IF result.outcome = "error"
                THEN [t0 EXCEPT !.error_count = @ + 1,
                                !.error_messages = Append(@, result.error_message)]
              ELSE IF result.outcome = "skipped"
                THEN [t0 EXCEPT !.skip_count = @ + 1]
              ELSE t0
    IN [res1 EXCEPT ![i] = t1]

\* The body of _process_results' loop for one TestResult
RecordResult(res, result) ==
    LET test_id == result.test_id
        parts == test_id
        test_file == IF parts # <<>> THEN parts[1] ELSE "unknown"
        test_function == IF parts # <<>> THEN parts[Len(parts)] ELSE "unknown"
        res1 == IF IndexOf(res, test_id) = 0
                THEN Append(res, FlakyTest(test_id, test_file, test_function))
                ELSE res
        i == IndexOf(res1, test_id)
        t0 == [res1[i] EXCEPT !.outcomes = Append(@, result.outcome)]
        t1 == IF result.outcome = "passed"
                THEN [t0 EXCEPT !.pass_count = @ + 1]
              ELSE IF result.outcome = "failed"
                THEN [t0 EXCEPT !.fail_count = @ + 1,
                                !.error_messages = Append(@, result.error_message)]
              ELSE IF result.outcome = "error"
                THEN [t0 EXCEPT !.error_count = @ + 1,
                                !.error_messages = Append(@, result.error_message)]
              ELSE IF result.outcome = "skipped"
                THEN [t0 EXCEPT !.skip_count = @ + 1]
              ELSE t0
    IN [res1 EXCEPT ![i] = t1]

\* FlakyDetector._process_results
RECURSIVE _process_results(_, _)
_process_results(res, rs) ==
    IF rs = <<>> THEN res
    ELSE _process_results(RecordResult(res, Head(rs)), Tail(rs))

\* sorted(xs, key=lambda t: t.flakiness_score, reverse=True): stable, so
\* equal scores keep their order in xs.
RECURSIVE InsertByScore(_, _)
InsertByScore(s, x) ==
    IF s = <<>> THEN <<x>>
    ELSE IF RatLess(flakiness_score(Head(s)), flakiness_score(x))
         THEN <<x>> \o s
         ELSE <<Head(s)>> \o InsertByScore(Tail(s), x)

RECURSIVE sorted_by_score(_)
sorted_by_score(xs) ==
    IF xs = <<>> THEN <<>>
    ELSE InsertByScore(sorted_by_score(SubSeq(xs, 1, Len(xs) - 1)), xs[Len(xs)])

NotFlaky(t) == ~is_flaky(t)

\* Mutant of get_flaky_tests: the sort by score is left out
get_flaky_tests_Unsorted(res) == SelectSeq(res, is_flaky)

\* FlakyDetector.get_flaky_tests
get_flaky_tests(res) == sorted_by_score(SelectSeq(res, is_flaky))

\* FlakyDetector.get_stable_tests
get_stable_tests(res) == SelectSeq(res, NotFlaky)

----------------------------------------------------------------------------
(* The detection session *)

\* FlakyDetector.__init__
Init ==
    /\ runs \in 0..MaxRuns
    /\ temp_dir = "tmp0"
    /\ results = <<>>
    /\ run_num = 0
    /\ pc = "loop"
    /\ files = [p \in {} |-> Garbage]
    /\ invoked = <<>>
    /\ flaky_ret = <<>>
    /\ stable_ret = <<>>
    /\ workflow_runs = <<>>
    /\ test_results = <<>>
    /\ ToolsUnused

\* Mutant of Iteration: a run that leaves no report ends the loop
Iteration_StopOnFailure(w) ==
    /\ pc = "loop"
    /\ run_num < runs
    /\ LET fs == WriteFile(files, report_file, w)
           rs == _execute_single_run(fs, report_file)
       IN /\ files' = fs
          /\ results' = _process_results(results, rs)
    /\ invoked' = Append(invoked, report_file)
    /\ run_num' = run_num + 1
    /\ pc' = IF w.wrote THEN "loop" ELSE "returned"
    /\ UNCHANGED <<runs, temp_dir, flaky_ret, stable_ret>>
    /\ UNCHANGED <<ciVars, toolVars>>

\* One iteration of run_detection's loop: the runner is invoked with the
\* report path, then the file at that path is decoded and recorded.
Iteration(w) ==
    /\ pc = "loop"
    /\ run_num < runs
    /\ LET fs == WriteFile(files, report_file, w)
           rs == _execute_single_run(fs, report_file)
       IN /\ files' = fs
          /\ results' = _process_results(results, rs)
    /\ invoked' = Append(invoked, report_file)
    /\ run_num' = run_num + 1
    /\ UNCHANGED <<runs, temp_dir, pc, flaky_ret, stable_ret>>
    /\ UNCHANGED <<ciVars, toolVars>>

\* run_detection: the loop is exhausted, return self.results
Return ==
    /\ pc = "loop"
    /\ run_num >= runs
    /\ pc' = "returned"
    /\ UNCHANGED <<runs, temp_dir, results, run_num, files, invoked,
                   flaky_ret, stable_ret>>
    /\ UNCHANGED <<ciVars, toolVars>>

\* cli.py:54  flaky_tests = detector.get_flaky_tests()
GetFlakyTests ==
    /\ pc = "returned"
    /\ flaky_ret' = get_flaky_tests(results)
    /\ pc' = "got_flaky"
    /\ UNCHANGED <<runs, temp_dir, results, run_num, files, invoked, stable_ret>>
    /\ UNCHANGED <<ciVars, toolVars>>

\* cli.py:55  stable_tests = detector.get_stable_tests()
GetStableTests ==
    /\ pc = "got_flaky"
    /\ stable_ret' = get_stable_tests(results)
    /\ pc' = "got_stable"
    /\ UNCHANGED <<runs, temp_dir, results, run_num, files, invoked, flaky_ret>>
    /\ UNCHANGED <<ciVars, toolVars>>

RunIteration == \E w \in RunnerWrites : Iteration(w)

Next ==
    \/ RunIteration
    \/ Return
    \/ GetFlakyTests
    \/ GetStableTests

Spec == Init /\ [][Next]_vars

----------------------------------------------------------------------------
(* ci_analyzer.py: CITestRun, CIFlakyTest, GitHubActionsAnalyzer *)

\* ci_analyzer.py:156  workflow_runs[:20]
RunCap == 20

\* The status keywords parse_pytest_output looks for in a line
StatusKeywords == {"PASSED", "FAILED", "SKIPPED", "ERROR"}

\* A log text is the sequence of its lines (logs.split('\n')), a line the
\* sequence of its whitespace-separated tokens (line.split()), a token the
\* sequence of its "::"-separated segments.

\* 'KEYWORD' in word, for the words of the model's logs: the keywords
\* themselves and the section title "ERRORS", which embeds one.
HasStatusKeyword(word) == word \in StatusKeywords \cup {"ERRORS"}

\* str.lower() on the words of the model's logs
Lower(word) ==
    CASE word = "PASSED" -> "passed"
      [] word = "FAILED" -> "failed"
      [] word = "SKIPPED" -> "skipped"
      [] word = "ERROR" -> "error"
      [] word = "ERRORS" -> "errors"
      [] word = "XFAIL" -> "xfail"
      [] word = "Tests" -> "tests"
      [] word = "Test" -> "test"
      [] OTHER -> word

LowerToken(token) == [i \in DOMAIN token |-> Lower(token[i])]

\* '::' in line
LineHasSeparator(line) == \E k \in DOMAIN line : Len(line[k]) >= 2

\* any(status in line for status in ['PASSED', 'FAILED', 'SKIPPED', 'ERROR'])
LineHasStatus(line) ==
    \E k \in DOMAIN line : \E j \in DOMAIN line[k] : HasStatusKeyword(line[k][j])

\* The body of parse_pytest_output's loop: the records one line yields
ParseLine(line) ==
    IF LineHasSeparator(line) /\ LineHasStatus(line)
    THEN LET parts == line IN
         IF Len(parts) >= 2
         THEN LET test_id == parts[1]
                  status == LowerToken(parts[2])
              IN IF Len(test_id) >= 2
                 THEN <<[test_name |-> test_id[Len(test_id)],
                         test_id |-> test_id,
                         status |-> status]>>
                 ELSE <<>>
         ELSE <<>>
    ELSE <<>>

\* GitHubActionsAnalyzer.parse_pytest_output
RECURSIVE parse_pytest_output(_)
parse_pytest_output(logs) ==
    IF logs = <<>> THEN <<>>
    ELSE ParseLine(Head(logs)) \o parse_pytest_output(Tail(logs))

\* CITestRun(test_name, status, run_id, run_number, commit_sha, branch,
\* timestamp); duration keeps its default and is left out.
CITestRun(test_name, status, run_id, run_number, commit_sha, branch, timestamp) ==
    [test_name |-> test_name, status |-> status, run_id |-> run_id,
     run_number |-> run_number, commit_sha |-> commit_sha, branch |-> branch,
     timestamp |-> timestamp]

\* CIFlakyTest(test_name, total_runs) with the dataclass defaults
CIFlakyTest(test_name, total_runs) ==
    [test_name |-> test_name, total_runs |-> total_runs,
     pass_count |-> 0, fail_count |-> 0, skip_count |-> 0,
     runs |-> <<>>, branches |-> {}]

\* CIFlakyTest.flakiness_score
CIFlakyTest_flakiness_score(t) ==
    IF t.total_runs = 0 THEN Rat(0, 1)
    ELSE LET pass_ratio == Rat(t.pass_count, t.total_runs)
             fail_ratio == Rat(t.fail_count, t.total_runs)
         IN RatTimes(RatMin(pass_ratio, fail_ratio), 2)

\* CIFlakyTest.is_flaky
CIFlakyTest_is_flaky(t) == t.pass_count > 0 /\ t.fail_count > 0

\* The position of test_name's aggregate in test_results, 0 when absent
CIIndexOf(tr, test_name) ==
    IF \E i \in DOMAIN tr : tr[i].test_name = test_name
    THEN CHOOSE i \in DOMAIN tr : tr[i].test_name = test_name
    ELSE 0

\* The body of analyze's inner loop for one parsed record of one execution
CIRecord(tr, test_data, run) ==
    LET test_name == test_data.test_name
        status == test_data.status
        tr1 == IF CIIndexOf(tr, test_name) = 0
               THEN Append(tr, CIFlakyTest(test_name, 0))
               ELSE tr
        i == CIIndexOf(tr1, test_name)
        ci_run == CITestRun(test_name, status, run.id, run.run_number,
                            run.head_sha, run.head_branch, run.created_at)
        t0 == [tr1[i] EXCEPT !.total_runs = @ + 1,
                             !.branches = @ \cup {run.head_branch},
                             !.runs = Append(@, ci_run)]
        t1 == IF status = <<"passed">>
                THEN [t0 EXCEPT !.pass_count = @ + 1]
              ELSE IF status \in {<<"failed">>, <<"error">>}
                THEN [t0 EXCEPT !.fail_count = @ + 1]
              ELSE IF status = <<"skipped">>
                THEN [t0 EXCEPT !.skip_count = @ + 1]
              ELSE t0
    IN [tr1 EXCEPT ![i] = t1]

RECURSIVE CIRecordAll(_, _, _)
CIRecordAll(tr, tests, run) ==
    IF tests = <<>> THEN tr
    ELSE CIRecordAll(CIRecord(tr, Head(tests), run), Tail(tests), run)

\* The body of analyze's outer loop for one execution.  run.logs is what
\* fetch_job_logs returned for it: ok = FALSE for None, text = <<>> for "".
AnalyzeRun(tr, run) ==
    IF ~run.logs.ok \/ run.logs.text = <<>> THEN tr
    ELSE CIRecordAll(tr, parse_pytest_output(run.logs.text), run)

RECURSIVE AnalyzeRuns(_, _)
AnalyzeRuns(tr, rs) ==
    IF rs = <<>> THEN tr
    ELSE AnalyzeRuns(AnalyzeRun(tr, Head(rs)), Tail(rs))

\* GitHubActionsAnalyzer.analyze on the list fetch_workflow_runs returned
analyze(fetched) == AnalyzeRuns(<<>>, Prefix(fetched, RunCap))

----------------------------------------------------------------------------
(* One test's history, aggregated locally and from CI *)

\* The test whose history SpecAgg follows
T0 == <<"a.py", "test_x">>

\* The word pytest -v prints after the node id for an outcome
PytestWord(o) ==
    CASE o = "passed" -> "PASSED"
      [] o = "failed" -> "FAILED"
      [] o = "error" -> "ERROR"
      [] o = "skipped" -> "SKIPPED"
      [] o = "xfailed" -> "XFAIL"

\* The k-th execution of the CI workflow, in which T0 ended with outcome o
Execution(k, o) ==
    [id |-> k, run_number |-> k, head_sha |-> "sha", head_branch |-> "main",
     created_at |-> k,
     logs |-> [ok |-> TRUE, text |-> << <<T0, <<PytestWord(o)>>>> >>]]

\* The detector and the importer before any execution
InitAgg ==
    /\ runs = MaxOutcomes
    /\ temp_dir = "tmp0"
    /\ results = <<>>
    /\ run_num = 0
    /\ pc = "loop"
    /\ files = [p \in {} |-> Garbage]
    /\ invoked = <<>>
    /\ flaky_ret = <<>>
    /\ stable_ret = <<>>
    /\ workflow_runs = <<>>
    /\ test_results = <<>>
    /\ ToolsUnused

\* One more execution of the suite, T0 ending with outcome o: the detector
\* decodes that run's report and records it (_execute_single_run,
\* _process_results), and the CI importer analyzes the history so far.
Observe(o) ==
    /\ run_num < runs
    /\ LET fs == WriteFile(files, report_file,
                           [wrote |-> TRUE,
                            content |-> JsonReport(<<ReportEntry(T0, o)>>)])
       IN /\ files' = fs
          /\ results' = _process_results(results,
                                         _execute_single_run(fs, report_file))
    /\ run_num' = run_num + 1
    /\ invoked' = Append(invoked, report_file)
    /\ workflow_runs' = Append(workflow_runs, Execution(run_num + 1, o))
    /\ test_results' = analyze(workflow_runs')
    /\ UNCHANGED <<runs, temp_dir, pc, flaky_ret, stable_ret>>
    /\ UNCHANGED toolVars

NextAgg == \E o \in Outcomes : Observe(o)

SpecAgg == InitAgg /\ [][NextAgg]_vars

----------------------------------------------------------------------------
(* analyzer.py: RootCause, RootCauseAnalyzer *)

(***************************************************************************)
(* A source line is the sequence of its lexemes, the leading one being its *)
(* indentation where it has one.  A regular expression of the pattern      *)
(* lists is the sequence of the lexemes it looks for, ".*" standing        *)
(* between two of them and "\d+\.\d+" being the lexeme class of decimal    *)
(* literals, so that re.search(pattern, line) is: the pattern's lexemes    *)
(* occur in the line, in this order.  The text of a function is the        *)
(* sequence of its lines, which is what func_source.split('\n') yields.    *)
(***************************************************************************)

\* most lines of a function body in the files analyzed
MaxBodyLines == 2

\* analyzer.py:40-47
TIME_PATTERNS ==
    << <<"datetime.now()">>, <<"time.time()">>, <<"time.sleep(">>,
       <<"timestamp">>, <<"today()">>, <<"utcnow()">> >>

\* analyzer.py:49-60
RANDOM_PATTERNS ==
    << <<"random.">>, <<"uuid.uuid4()">>, <<"generate_uuid(">>,
       <<"generate_user_id(">>, <<"shuffle(">>, <<"shuffle_list(">>,
       <<"choice(">>, <<"randint(">>, <<"randrange(">>, <<"uuid4(">> >>

\* analyzer.py:62-70
CONCURRENCY_PATTERNS ==
    << <<"threading.">>, <<"Thread(">>, <<"asyncio.">>, <<"async def">>,
       <<"await">>, <<"multiprocessing.">>, <<"Pool(">> >>

\* analyzer.py:72-78
ORDER_PATTERNS ==
    << <<"set(">>, <<"dict.keys()">>, <<"dict.values()">>,
       <<"dict.items()">>, <<".json()">> >>

\* analyzer.py:80-89
EXTERNAL_PATTERNS ==
    << <<"requests.">>, <<"http">>, <<"url">>, <<"api">>, <<"socket.">>,
       <<"open(">>, <<".read(">>, <<".write(">> >>

\* analyzer.py:91-94
FLOAT_PATTERNS ==
    << <<"assert", "==", "\\d+\\.\\d+">>, <<"assertEqual", "\\d+\\.\\d+">> >>

\* analyzer.py:96-101
GLOBAL_STATE_PATTERNS ==
    << <<"global">>, <<"__class__.">>, <<"sys.">>, <<"os.environ">> >>

\* the lexemes "\d+\.\d+" matches
DecimalLiterals == {"0.1", "3.14"}

\* the whitespace a line may begin with
Whitespace == {"    "}

\* one lexeme of a pattern against one lexeme of a line
LexemeMatches(p, lexeme) ==
    IF p = "\\d+\\.\\d+" THEN lexeme \in DecimalLiterals ELSE lexeme = p

\* re.search(pattern, line)
RECURSIVE re_search(_, _)
re_search(pattern, line) ==
    IF pattern = <<>> THEN TRUE
    ELSE IF line = <<>> THEN FALSE
    ELSE IF LexemeMatches(Head(pattern), Head(line))
         THEN re_search(Tail(pattern), Tail(line))
         ELSE re_search(pattern, Tail(line))

\* line.strip()
RECURSIVE strip(_)
strip(line) ==
    IF line = <<>> THEN <<>>
    ELSE IF Head(line) \in Whitespace THEN strip(Tail(line))
    ELSE IF line[Len(line)] \in Whitespace
         THEN strip(SubSeq(line, 1, Len(line) - 1))
         ELSE line

\* analyzer.py:26-33
RootCause(type, description, line_numbers, code_snippets, confidence) ==
    [type |-> type, description |-> description,
     line_numbers |-> line_numbers, code_snippets |-> code_snippets,
     confidence |-> confidence]

\* Mutant of PatternLoop: every pattern found in the line appends a match
RECURSIVE PatternLoop_NoBreak(_, _, _, _)
PatternLoop_NoBreak(patterns, line, line_num, k) ==
    IF k > Len(patterns) THEN <<>>
    ELSE (IF re_search(patterns[k], line)
          THEN << <<line_num, strip(line)>> >>
          ELSE <<>>)
         \o PatternLoop_NoBreak(patterns, line, line_num, k + 1)

\* _check_pattern's inner loop over the patterns, from the k-th on: the first
\* pattern found in the line appends one match and breaks
RECURSIVE PatternLoop(_, _, _, _)
PatternLoop(patterns, line, line_num, k) ==
    IF k > Len(patterns) THEN <<>>
    ELSE IF re_search(patterns[k], line)
         THEN << <<line_num, strip(line)>> >>
         ELSE PatternLoop(patterns, line, line_num, k + 1)

\* the outer loop numbering the lines of the span from 1 instead of 0
RECURSIVE LineLoop_OneBased(_, _, _, _)
LineLoop_OneBased(patterns, lines, start_line, i) ==
    IF i >= Len(lines) THEN <<>>
    ELSE PatternLoop(patterns, lines[i + 1], start_line + i + 1, 1)
         \o LineLoop_OneBased(patterns, lines, start_line, i + 1)

\* _check_pattern's outer loop, "for i, line in enumerate(lines)", from i on
RECURSIVE LineLoop(_, _, _, _)
LineLoop(patterns, lines, start_line, i) ==
    IF i >= Len(lines) THEN <<>>
    ELSE PatternLoop(patterns, lines[i + 1], start_line + i, 1)
         \o LineLoop(patterns, lines, start_line, i + 1)

\* RootCauseAnalyzer._check_pattern: the (line_num, snippet) matches
_check_pattern(patterns, lines, start_line) ==
    LineLoop(patterns, lines, start_line, 0)

\* [m[0] for m in matches], [m[1] for m in matches]
Column(matches, c) == [k \in 1..Len(matches) |-> matches[k][c]]

\* a check that emits one RootCause per matching line
CheckCategory_PerMatch(patterns, lines, start_line, type, description, confidence) ==
    LET matches == _check_pattern(patterns, lines, start_line)
    IN [k \in 1..Len(matches) |->
           RootCause(type, description, <<matches[k][1]>>,
                     <<matches[k][2]>>, confidence)]

\* The body the seven _check_* methods share: one RootCause if any line
\* matched, none otherwise
CheckCategory(patterns, lines, start_line, type, description, confidence) ==
    LET matches == _check_pattern(patterns, lines, start_line)
    IN IF matches # <<>>
       THEN <<RootCause(type, description, Column(matches, 1),
                        Column(matches, 2), confidence)>>
       ELSE <<>>

_check_time_dependency(lines, start_line) ==
    CheckCategory(TIME_PATTERNS, lines, start_line, "time_dependent",
        "Test uses current time/date which changes between runs",
        Rat(90, 100))

_check_random_dependency(lines, start_line) ==
    CheckCategory(RANDOM_PATTERNS, lines, start_line, "random_dependent",
        "Test uses random values without setting seed",
        Rat(95, 100))

_check_concurrency(lines, start_line) ==
    CheckCategory(CONCURRENCY_PATTERNS, lines, start_line, "concurrency",
        "Test involves threading/async code with potential race conditions",
        Rat(80, 100))

_check_order_dependency(lines, start_line) ==
    CheckCategory(ORDER_PATTERNS, lines, start_line, "unordered_collection",
        "Test relies on ordering of sets/dicts which is not guaranteed",
        Rat(70, 100))

_check_external_dependency(lines, start_line) ==
    CheckCategory(EXTERNAL_PATTERNS, lines, start_line, "external_dependency",
        "Test depends on external resources (network, filesystem, etc.)",
        Rat(60, 100))

_check_floating_point(lines, start_line) ==
    CheckCategory(FLOAT_PATTERNS, lines, start_line, "floating_point",
        "Test uses exact floating point comparison which may fail due to rounding",
        Rat(85, 100))

_check_global_state(lines, start_line) ==
    CheckCategory(GLOBAL_STATE_PATTERNS, lines, start_line, "global_state",
        "Test modifies global state which may affect other tests",
        Rat(75, 100))

\* Python's None where an AST node is expected
None == [kind |-> "None"]

\* RootCauseAnalyzer._find_function over the nodes ast.walk yields, in order
RECURSIVE _find_function(_, _)
_find_function(nodes, func_name) ==
    IF nodes = <<>> THEN None
    ELSE IF Head(nodes).kind = "FunctionDef" /\ Head(nodes).name = func_name
         THEN Head(nodes)
         ELSE _find_function(Tail(nodes), func_name)

\* ast.get_source_segment(self.source_code, node): the node's lines
get_source_segment(node) == node.segment

\* the seven checks with the global-state check run first
AllChecks_GlobalStateFirst(func_lines, func_start_line) ==
    _check_global_state(func_lines, func_start_line)
    \o _check_time_dependency(func_lines, func_start_line)
    \o _check_random_dependency(func_lines, func_start_line)
    \o _check_concurrency(func_lines, func_start_line)
    \o _check_order_dependency(func_lines, func_start_line)
    \o _check_external_dependency(func_lines, func_start_line)
    \o _check_floating_point(func_lines, func_start_line)

\* The seven checks of analyze, in the order it runs them (lines 142-148)
AllChecks(func_lines, func_start_line) ==
    _check_time_dependency(func_lines, func_start_line)
    \o _check_random_dependency(func_lines, func_start_line)
    \o _check_concurrency(func_lines, func_start_line)
    \o _check_order_dependency(func_lines, func_start_line)
    \o _check_external_dependency(func_lines, func_start_line)
    \o _check_floating_point(func_lines, func_start_line)
    \o _check_global_state(func_lines, func_start_line)

\* analyze without its fallback: the causes found, even when there are none
RootCauseAnalyzer_analyze_NoFallback(t, func_name) ==
    IF ~t.parsed
    THEN <<RootCause("unknown", "Could not parse test file",
                     <<>>, <<>>, Rat(0, 100))>>
    ELSE LET test_func == _find_function(t.body, func_name)
         IN IF test_func = None THEN <<>>
            ELSE AllChecks(get_source_segment(test_func), test_func.lineno)

\* RootCauseAnalyzer.analyze on an analyzer whose self.tree is t
RootCauseAnalyzer_analyze(t, func_name) ==
    IF ~t.parsed
    THEN <<RootCause("unknown", "Could not parse test file",
                     <<>>, <<>>, Rat(0, 100))>>
    ELSE LET test_func == _find_function(t.body, func_name)
         IN IF test_func = None THEN <<>>
            ELSE LET func_source == get_source_segment(test_func)
                 IN IF func_source = <<>> THEN <<>>
                    ELSE LET found == AllChecks(func_source, test_func.lineno)
                         IN IF found # <<>> THEN found
                            ELSE <<RootCause("unknown",
                                     "No obvious flakiness pattern detected",
                                     <<>>, <<>>, Rat(10, 100))>>

----------------------------------------------------------------------------
(* Analyzing one function of one file *)

\* The names asked for and defined
FunctionNames == {"test_x", "test_y"}

\* The lines function bodies are written with: one or two per category,
\* lines of two categories, and lines of none
BodyLines ==
    { <<"    ", "now", "=", "datetime.now()">>,
      <<"    ", "x", "=", "random.", "random()">>,
      <<"    ", "Thread(", "target", "=", "time.sleep(", ")">>,
      <<"    ", "requests.", "get(", "url", ")", ".json()">>,
      <<"    ", "assert", "x", "==", "0.1">>,
      <<"    ", "assert", "3.14", "==", "x">>,
      <<"    ", "global", "counter">>,
      <<"    ", "x", "=", "1">> }

\* The bodies of at most MaxBodyLines lines
Bodies == UNION {[1..n -> BodyLines] : n \in 1..MaxBodyLines}

\* The lines a definition may start on
StartLines == {1, 7}

\* A "def" or "async def" statement as ast.parse represents it: the node's
\* class, name and lineno, and the lines get_source_segment cuts out for it
DefNode(kind, name, lineno, body) ==
    [kind |-> kind, name |-> name, lineno |-> lineno,
     segment |-> << <<IF kind = "FunctionDef" THEN "def" ELSE "async def",
                      name, "():">> >> \o body]

DefNodes ==
    {DefNode(kind, name, lineno, body) :
        kind \in {"FunctionDef", "AsyncFunctionDef"}, name \in FunctionNames,
        lineno \in StartLines, body \in Bodies}

\* The files an analyzer is constructed on: missing, not parseable, or
\* parseable with the definitions ast.walk meets
TestFiles ==
    { [exists |-> FALSE, syntax_ok |-> FALSE, defs |-> <<>>],
      [exists |-> TRUE, syntax_ok |-> FALSE, defs |-> <<>>],
      [exists |-> TRUE, syntax_ok |-> TRUE, defs |-> <<>>] }
    \cup {[exists |-> TRUE, syntax_ok |-> TRUE, defs |-> <<d>>] : d \in DefNodes}

\* RootCauseAnalyzer.__init__: self.tree stays None unless the file exists
\* and ast.parse accepts it
RootCauseAnalyzer(file) ==
    IF file.exists /\ file.syntax_ok
    THEN [parsed |-> TRUE, body |-> file.defs]
    ELSE [parsed |-> FALSE, body |-> <<>>]

\* analyzer = RootCauseAnalyzer(test_file_path)   (cli.py)
InitAnalyzer ==
    /\ SessionUnused
    /\ SuggesterUnused
    /\ ImportUnused
    /\ analyzer_test_file \in TestFiles
    /\ tree = RootCauseAnalyzer(analyzer_test_file)
    /\ test_function_name = ""
    /\ causes = <<>>
    /\ apc = "constructed"

\* causes = analyzer.analyze(test.test_function)
Analyze(func_name) ==
    /\ apc = "constructed"
    /\ test_function_name' = func_name
    /\ causes' = RootCauseAnalyzer_analyze(tree, func_name)
    /\ apc' = "analyzed"
    /\ UNCHANGED <<analyzer_test_file, tree>>
    /\ UNCHANGED <<detectorVars, ciVars, suggesterVars, importVars>>

NextAnalyzer == \E func_name \in FunctionNames : Analyze(func_name)

SpecAnalyzer == InitAnalyzer /\ [][NextAnalyzer]_vars

----------------------------------------------------------------------------
(* suggester.py: RepairSuggestion, RepairSuggester *)

\* most causes in a list given to suggest_repairs
MaxCauses == 3

\* suggester.py:11-17.  A code example is written as its first line.
RepairSuggestion(title, description, code_example, priority) ==
    [title |-> title, description |-> description,
     code_example |-> code_example, priority |-> priority]

_suggest_time_fixes ==
    << RepairSuggestion("Mock datetime.now() with freezegun",
           "Use freezegun to freeze time during test execution",
           "# Install: pip install freezegun", 1),
       RepairSuggestion("Inject time as parameter",
           "Pass time as a parameter instead of calling datetime.now() inside code",
           "# Instead of:", 1) >>

_suggest_random_fixes ==
    << RepairSuggestion("Set random seed before test",
           "Fix the random seed to make tests deterministic",
           "import random", 1),
       RepairSuggestion("Use pytest fixtures for random data",
           "Generate random test data in fixtures with fixed seed",
           "import pytest", 1),
       RepairSuggestion("Mock random module",
           "Mock the random module to return predetermined values",
           "from unittest.mock import patch", 2) >>

_suggest_concurrency_fixes ==
    << RepairSuggestion("Add proper synchronization",
           "Use locks, events, or other synchronization primitives",
           "import threading", 1),
       RepairSuggestion("Use pytest-asyncio for async tests",
           "Properly handle async tests with pytest-asyncio",
           "import pytest", 1),
       RepairSuggestion("Add timeouts and retries",
           "Add explicit timeouts for async operations",
           "import asyncio", 2) >>

_suggest_order_fixes ==
    << RepairSuggestion("Sort collections before comparison",
           "Convert to sorted lists for deterministic ordering",
           "# Instead of:", 1),
       RepairSuggestion("Use ordered collections",
           "Replace set/dict with list/OrderedDict when order matters",
           "from collections import OrderedDict", 1) >>

_suggest_external_fixes ==
    << RepairSuggestion("Mock external dependencies",
           "Use mocks instead of real external calls",
           "from unittest.mock import patch, Mock", 1),
       RepairSuggestion("Use pytest fixtures for test files",
           "Create temporary files in fixtures",
           "import pytest", 1),
       RepairSuggestion("Use responses library for HTTP",
           "Mock HTTP requests with the responses library",
           "import responses", 2) >>

_suggest_float_fixes ==
    << RepairSuggestion("Use pytest.approx for float comparison",
           "Compare floats with tolerance using pytest.approx",
           "import pytest", 1),
       RepairSuggestion("Use math.isclose()",
           "Use math.isclose() for relative/absolute tolerance",
           "import math", 1) >>

_suggest_global_state_fixes ==
    << RepairSuggestion("Reset global state in fixtures",
           "Use pytest fixtures to reset state before/after tests",
           "import pytest", 1),
       RepairSuggestion("Mock environment variables",
           "Use monkeypatch to temporarily set environment variables",
           "def test_with_env_var(monkeypatch):", 1),
       RepairSuggestion("Use dependency injection",
           "Pass dependencies as parameters instead of using globals",
           "# Instead of:", 2) >>

\* analyzer.py:13-23  FlakinessType
FlakinessTypes ==
    {"time_dependent", "random_dependent", "order_dependent", "concurrency",
     "external_dependency", "floating_point", "unordered_collection",
     "global_state", "unknown"}

\* a dispatch under which the unknown cause is given the time fixes
FixesFor_UnknownGetsFixes(type) ==
    CASE type = "time_dependent" -> _suggest_time_fixes
      [] type = "random_dependent" -> _suggest_random_fixes
      [] type = "concurrency" -> _suggest_concurrency_fixes
      [] type = "unordered_collection" -> _suggest_order_fixes
      [] type = "external_dependency" -> _suggest_external_fixes
      [] type = "floating_point" -> _suggest_float_fixes
      [] type = "global_state" -> _suggest_global_state_fixes
      [] type = "unknown" -> _suggest_time_fixes
      [] OTHER -> <<>>

\* The if/elif chain of suggest_repairs (lines 28-41): what one cause adds
FixesFor(type) ==
    CASE type = "time_dependent" -> _suggest_time_fixes
      [] type = "random_dependent" -> _suggest_random_fixes
      [] type = "concurrency" -> _suggest_concurrency_fixes
      [] type = "unordered_collection" -> _suggest_order_fixes
      [] type = "external_dependency" -> _suggest_external_fixes
      [] type = "floating_point" -> _suggest_float_fixes
      [] type = "global_state" -> _suggest_global_state_fixes
      [] OTHER -> <<>>

\* "for cause in causes: suggestions.extend(...)"
RECURSIVE ExtendAll(_)
ExtendAll(cs) ==
    IF cs = <<>> THEN <<>>
    ELSE FixesFor(Head(cs).type) \o ExtendAll(Tail(cs))

\* Mutant of UniqueByTitle: every suggestion is kept
UniqueByTitle_KeepAll(suggs, seen) == suggs

\* The duplicate removal (lines 44-49): a suggestion is kept unless its title
\* was seen before
RECURSIVE UniqueByTitle(_, _)
UniqueByTitle(suggs, seen) ==
    IF suggs = <<>> THEN <<>>
    ELSE IF Head(suggs).title \in seen
         THEN UniqueByTitle(Tail(suggs), seen)
         ELSE <<Head(suggs)>>
              \o UniqueByTitle(Tail(suggs), seen \cup {Head(suggs).title})

\* Mutant of InsertByPriority: s is put ahead of the entries of its priority
RECURSIVE InsertByPriority_AheadOfEquals(_, _)
InsertByPriority_AheadOfEquals(sorted, s) ==
    IF sorted = <<>> THEN <<s>>
    ELSE IF Head(sorted).priority < s.priority
         THEN <<Head(sorted)>> \o InsertByPriority_AheadOfEquals(Tail(sorted), s)
         ELSE <<s>> \o sorted

\* s put into a list sorted by priority, behind the entries of its priority
RECURSIVE InsertByPriority(_, _)
InsertByPriority(sorted, s) ==
    IF sorted = <<>> THEN <<s>>
    ELSE IF Head(sorted).priority <= s.priority
         THEN <<Head(sorted)>> \o InsertByPriority(Tail(sorted), s)
         ELSE <<s>> \o sorted

\* sorted(unique_suggestions, key=lambda s: s.priority): a stable sort
RECURSIVE sorted_by_priority(_)
sorted_by_priority(suggs) ==
    IF suggs = <<>> THEN <<>>
    ELSE InsertByPriority(
             sorted_by_priority(SubSeq(suggs, 1, Len(suggs) - 1)),
             suggs[Len(suggs)])

\* suggest_repairs returning the unique suggestions as they were collected
suggest_repairs_Unsorted(cs) == UniqueByTitle(ExtendAll(cs), {})

\* RepairSuggester.suggest_repairs
suggest_repairs(cs) == sorted_by_priority(UniqueByTitle(ExtendAll(cs), {}))

----------------------------------------------------------------------------
(* Suggesting repairs for one list of causes *)

\* A cause of the given type, as far as suggest_repairs reads it
CauseOfType(type) == RootCause(type, "", <<>>, <<>>, Rat(0, 100))

\* The lists of at most MaxCauses causes, of any types, repeated or not
CauseLists ==
    UNION {[1..n -> {CauseOfType(type) : type \in FlakinessTypes}] :
              n \in 0..MaxCauses}

\* suggester = RepairSuggester()
InitSuggester ==
    /\ SessionUnused
    /\ AnalyzerUnused
    /\ ImportUnused
    /\ given_causes \in CauseLists
    /\ suggestions = <<>>
    /\ spc = "ready"

\* suggestions = suggester.suggest_repairs(causes)
SuggestRepairs ==
    /\ spc = "ready"
    /\ suggestions' = suggest_repairs(given_causes)
    /\ spc' = "suggested"
    /\ UNCHANGED given_causes
    /\ UNCHANGED <<detectorVars, ciVars, analyzerVars, importVars>>

NextSuggester == SuggestRepairs

SpecSuggester == InitSuggester /\ [][NextSuggester]_vars

----------------------------------------------------------------------------
(* ci_analyzer.py: the requests of the two importers, GitLabCIAnalyzer,      *)
(* get_flaky_tests                                                          *)

(***************************************************************************)
(* The provider is the server behind the API.  An execution (a GitHub      *)
(* workflow run, a GitLab pipeline) carries the fields the listing returns *)
(* for it and, beside them, what the server answers to the requests about  *)
(* it: "logs" for a run, "jobs" for a pipeline and "trace" for a job, each *)
(* with ok = FALSE when the request raises requests.RequestException.      *)
(***************************************************************************)

\* GitHubActionsAnalyzer.__init__: workflow_name = "tests"
workflow_name == "tests"

\* workflow_name.lower() in run.get('name', '').lower(), for the workflow
\* names of the model, which either are the name up to case or lack it
WorkflowNameIn(name) == Lower(workflow_name) = Lower(name)

\* GitHubActionsAnalyzer.fetch_workflow_runs against provider p
fetch_workflow_runs(p) ==
    IF ~p.listing_ok THEN <<>>
    ELSE LET all_runs == p.runs
         IN IF workflow_name # ""
            THEN SelectSeq(all_runs, LAMBDA run : WorkflowNameIn(run.name))
            ELSE all_runs

\* fetch_job_logs without raise_for_status: the text of any response
fetch_job_logs_AnyStatus(run) == [ok |-> TRUE, text |-> run.logs.text]

\* GitHubActionsAnalyzer.fetch_job_logs(run_id): ok = FALSE stands for None
fetch_job_logs(run) ==
    IF run.logs.ok THEN run.logs ELSE [ok |-> FALSE, text |-> <<>>]

\* GitLabCIAnalyzer.fetch_pipelines against provider p
fetch_pipelines(p) == IF ~p.listing_ok THEN <<>> ELSE p.runs

\* GitLabCIAnalyzer.fetch_pipeline_jobs(pipeline_id)
fetch_pipeline_jobs(pipeline) ==
    IF pipeline.jobs.ok THEN pipeline.jobs.list ELSE <<>>

\* GitLabCIAnalyzer.fetch_job_log(job_id): ok = FALSE stands for None
fetch_job_log(job) ==
    IF job.trace.ok THEN job.trace ELSE [ok |-> FALSE, text |-> <<>>]

\* 'test' in j['name'].lower(), for the job names of the model
IsTestJob(j) == Lower(j.name) = "test"

\* next((j for j in jobs if 'test' in j['name'].lower()), None)
RECURSIVE NextTestJob(_)
NextTestJob(jobs) ==
    IF jobs = <<>> THEN None
    ELSE IF IsTestJob(Head(jobs)) THEN Head(jobs)
    ELSE NextTestJob(Tail(jobs))

\* the whole list in place of workflow_runs[:20]
Capped_Uncapped(executions) == executions

\* workflow_runs[:20], pipelines[:20]
Capped(executions) == Prefix(executions, RunCap)

\* "not logs": None or the empty string
NoLogs(logs) == ~logs.ok \/ logs.text = <<>>

\* The provenance GitLabCIAnalyzer.analyze records for a pipeline (lines
\* 300-303, 336-344), under the field names of a workflow run
PipelineRun(pipeline) ==
    [id |-> pipeline.id, run_number |-> pipeline.id,
     head_sha |-> pipeline.sha, head_branch |-> pipeline.ref,
     created_at |-> pipeline.created_at]

\* The body of GitHubActionsAnalyzer.analyze's loop for one run: the
\* requests it issues and the test_results it leaves
GitHubLoopBody(tr, run) ==
    [calls |-> << <<"logs", run.id>> >>,
     tr |-> IF NoLogs(fetch_job_logs(run)) THEN tr
            ELSE CIRecordAll(tr, parse_pytest_output(fetch_job_logs(run).text),
                             run)]

\* The body of GitLabCIAnalyzer.analyze's loop for one pipeline
GitLabLoopBody(tr, pipeline) ==
    LET jobs == fetch_pipeline_jobs(pipeline)
        test_job == NextTestJob(jobs)
    IN IF test_job = None
       THEN [calls |-> << <<"jobs", pipeline.id>> >>, tr |-> tr]
       ELSE LET logs == fetch_job_log(test_job)
            IN [calls |-> << <<"jobs", pipeline.id>>,
                             <<"trace", test_job.id>> >>,
                tr |-> IF NoLogs(logs) THEN tr
                       ELSE CIRecordAll(tr, parse_pytest_output(logs.text),
                                        PipelineRun(pipeline))]

\* x put into a list sorted by descending score, behind the entries of its
\* score
RECURSIVE CIInsertByScore(_, _)
CIInsertByScore(s, x) ==
    IF s = <<>> THEN <<x>>
    ELSE IF RatLess(CIFlakyTest_flakiness_score(Head(s)),
                    CIFlakyTest_flakiness_score(x))
         THEN <<x>> \o s
         ELSE <<Head(s)>> \o CIInsertByScore(Tail(s), x)

\* flaky_tests.sort(key=lambda t: t.flakiness_score, reverse=True)
RECURSIVE ci_sort_by_score(_)
ci_sort_by_score(xs) ==
    IF xs = <<>> THEN <<>>
    ELSE CIInsertByScore(ci_sort_by_score(SubSeq(xs, 1, Len(xs) - 1)),
                         xs[Len(xs)])

\* get_flaky_tests keeping every flaky aggregate, whatever its total_runs
ci_get_flaky_tests_AnyRuns(tr, m) ==
    ci_sort_by_score(SelectSeq(tr, CIFlakyTest_is_flaky))

\* ci_analyzer.get_flaky_tests(test_results, min_runs)
ci_get_flaky_tests(tr, m) ==
    ci_sort_by_score(
        SelectSeq(tr, LAMBDA test_data :
                          test_data.total_runs >= m
                          /\ CIFlakyTest_is_flaky(test_data)))

----------------------------------------------------------------------------
(* One CI import and the filtering of its result *)

\* most executions of a provider whose answers vary
MaxFreeRuns == 3

\* The tests of the CI logs
TX == <<"a.py", "test_x">>
TY == <<"a.py", "test_y">>

\* The line pytest -v prints for a test: its node id, then the status word
ResultLine(test_id, word) == <<test_id, <<word>>>>

\* The texts of the logs that come with content
LogTexts ==
    { << << <<"collected">>, <<"2">>, <<"items">> >>,
         ResultLine(TX, "PASSED"), ResultLine(TY, "PASSED") >>,
      << ResultLine(TX, "PASSED"), ResultLine(TY, "FAILED") >>,
      << ResultLine(TX, "FAILED") >> }

\* What a log request is answered with: an error status, whose response has
\* a body all the same, an empty text, a text
LogAnswers ==
    { [ok |-> FALSE, text |-> <<ResultLine(TX, "FAILED")>>],
      [ok |-> TRUE, text |-> <<>>] }
    \cup {[ok |-> TRUE, text |-> t] : t \in LogTexts}

\* The jobs of pipeline k when it has a test job, whose trace request is
\* answered with a
JobsWithTest(k, a) ==
    << [id |-> 10 * k, name |-> "build",
        trace |-> [ok |-> TRUE, text |-> <<>>]],
       [id |-> 10 * k + 1, name |-> "Test", trace |-> a] >>

\* How the jobs request of a pipeline may go: an error, a list without a
\* test job, a list with a test job whose trace request is answered with a
JobsBehaviours ==
    { [listing |-> "error", trace |-> [ok |-> FALSE, text |-> <<>>]],
      [listing |-> "no_test_job", trace |-> [ok |-> FALSE, text |-> <<>>]] }
    \cup {[listing |-> "ok", trace |-> a] : a \in LogAnswers}

\* What the jobs request of pipeline k is answered with under behaviour b
JobsAnswer(k, b) ==
    CASE b.listing = "error" -> [ok |-> FALSE, list |-> <<>>]
      [] b.listing = "no_test_job" ->
            [ok |-> TRUE,
             list |-> <<[id |-> 10 * k, name |-> "build",
                         trace |-> [ok |-> TRUE, text |-> <<>>]]>>]
      [] OTHER -> [ok |-> TRUE, list |-> JobsWithTest(k, b.trace)]

\* The k-th workflow run of a GitHub repository
WorkflowRun(k, name, logs) ==
    [id |-> k, name |-> name, run_number |-> k, head_sha |-> "sha",
     head_branch |-> "main", created_at |-> k, logs |-> logs]

\* The k-th pipeline of a GitLab project
Pipeline(k, jobs) ==
    [id |-> k, sha |-> "sha", ref |-> "main", created_at |-> k,
     jobs |-> jobs]

\* The log of the executions that fill a long history
PadLog ==
    [ok |-> TRUE, text |-> <<ResultLine(<<"pad.py", "test_pad">>, "PASSED")>>]

\* Executions of a long history ahead of those whose answers vary: as many
\* as leave room for one more below the cap, and for GitHub a run of another
\* workflow before them
PadLen == RunCap - 1

GitHubPad(pad) ==
    IF pad = 0 THEN <<>>
    ELSE <<WorkflowRun(0, "deploy", PadLog)>>
         \o [k \in 1..pad |-> WorkflowRun(k, "Tests", PadLog)]

GitLabPad(pad) == [k \in 1..pad |-> Pipeline(k, [ok |-> TRUE,
                                                list |-> JobsWithTest(k, PadLog)])]

\* The sequences of at most MaxFreeRuns answers
AnswerSeqs(answers) == UNION {[1..n -> answers] : n \in 0..MaxFreeRuns}

\* The providers: whether the listing request succeeds, whether the
\* history is a long one, and the answers about its latest executions
Providers ==
    {[kind |-> "github", listing_ok |-> ok, pad |-> pad, answers |-> a] :
        ok \in BOOLEAN, pad \in {0, PadLen}, a \in AnswerSeqs(LogAnswers)}
    \cup {[kind |-> "gitlab", listing_ok |-> ok, pad |-> pad, answers |-> a] :
        ok \in BOOLEAN, pad \in {0, PadLen}, a \in AnswerSeqs(JobsBehaviours)}

\* The history of a GitHub repository, as its listing returns it
GitHubHistory(p) ==
    GitHubPad(p.pad)
    \o [k \in 1..Len(p.answers) |->
           WorkflowRun(p.pad + k, "Tests", p.answers[k])]

\* The history of a GitLab project, as its listing returns it
GitLabHistory(p) ==
    GitLabPad(p.pad)
    \o [k \in 1..Len(p.answers) |->
           Pipeline(p.pad + k, JobsAnswer(p.pad + k, p.answers[k]))]

\* What the listing request meets at provider p
Listing(p) ==
    [listing_ok |-> p.listing_ok,
     runs |-> IF p.kind = "github" THEN GitHubHistory(p) ELSE GitLabHistory(p)]

\* The values of min_runs get_flaky_tests is called with; 3 is the default
MinRunsValues == 1..4

\* analyzer = GitHubActionsAnalyzer(...) or GitLabCIAnalyzer(...)
InitImport ==
    /\ DetectorUnused
    /\ AnalyzerUnused
    /\ SuggesterUnused
    /\ provider \in Providers
    /\ workflow_runs = <<>>
    /\ test_results = <<>>
    /\ api_calls = <<>>
    /\ idx = 0
    /\ ipc = "start"
    /\ min_runs = 0
    /\ ci_flaky_tests = <<>>

\* analyze, up to its loop: the executions are listed (ci_analyzer.py:151,
\* 294) and test_results starts empty
FetchExecutions ==
    /\ ipc = "start"
    /\ workflow_runs' = IF provider.kind = "github"
                        THEN fetch_workflow_runs(Listing(provider))
                        ELSE fetch_pipelines(Listing(provider))
    /\ test_results' = <<>>
    /\ api_calls' = Append(api_calls, <<"list", 0>>)
    /\ ipc' = "loop"
    /\ UNCHANGED <<provider, idx, min_runs, ci_flaky_tests>>
    /\ UNCHANGED <<detectorVars, analyzerVars, suggesterVars>>

\* One iteration of "for i, run in enumerate(workflow_runs[:20], 1)"
LoopStep ==
    /\ ipc = "loop"
    /\ idx < Len(Capped(workflow_runs))
    /\ LET run == Capped(workflow_runs)[idx + 1]
           body == IF provider.kind = "github"
                   THEN GitHubLoopBody(test_results, run)
                   ELSE GitLabLoopBody(test_results, run)
       IN /\ test_results' = body.tr
          /\ api_calls' = api_calls \o body.calls
    /\ idx' = idx + 1
    /\ UNCHANGED <<provider, workflow_runs, ipc, min_runs, ci_flaky_tests>>
    /\ UNCHANGED <<detectorVars, analyzerVars, suggesterVars>>

\* The loop is exhausted: return dict(test_results)
ReturnResults ==
    /\ ipc = "loop"
    /\ idx >= Len(Capped(workflow_runs))
    /\ ipc' = "returned"
    /\ UNCHANGED <<provider, workflow_runs, test_results, api_calls, idx,
                   min_runs, ci_flaky_tests>>
    /\ UNCHANGED <<detectorVars, analyzerVars, suggesterVars>>

\* flaky = get_flaky_tests(test_results, min_runs=m)
FilterFlaky(m) ==
    /\ ipc = "returned"
    /\ min_runs' = m
    /\ ci_flaky_tests' = ci_get_flaky_tests(test_results, m)
    /\ ipc' = "filtered"
    /\ UNCHANGED <<provider, workflow_runs, test_results, api_calls, idx>>
    /\ UNCHANGED <<detectorVars, analyzerVars, suggesterVars>>

GetCIFlakyTests == \E m \in MinRunsValues : FilterFlaky(m)

NextImport ==
    \/ FetchExecutions
    \/ LoopStep
    \/ ReturnResults
    \/ GetCIFlakyTests

SpecImport == InitImport /\ [][NextImport]_vars

\* The same import, over logs of everything pytest -v prints: the test of
\* the same name in another file, a test inherited from a base class (its
\* line names the file it comes from between the node id and the status
\* word), the lines of the short summary, an expected failure, a section
\* title

\* The texts of such logs.  TXB is the test of the name of TX in another
\* file; the second text is "a.py::test_x <- base.py PASSED"; the summary
\* line is "FAILED b.py::test_x - assert", the section title
\* "==== ERRORS ===="
VerboseLogTexts ==
    LET TXB == <<"b.py", "test_x">>
        InheritedLine(test_id, word) ==
            <<test_id, <<"<-">>, <<"base.py">>, <<word>>>>
        SummaryLine(word, test_id) ==
            <<<<word>>, test_id, <<"-">>, <<"assert">>>>
        SectionLine == <<<<"====">>, <<"ERRORS">>, <<"====">>>>
    IN { << ResultLine(TX, "PASSED"), ResultLine(TXB, "FAILED"),
            SummaryLine("FAILED", TXB) >>,
         << InheritedLine(TX, "PASSED") >>,
         << ResultLine(TX, "SKIPPED"), ResultLine(TY, "ERROR"),
            ResultLine(TXB, "XFAIL"), SectionLine >> }

\* The providers of such logs: short histories, every log request
\* answered with an empty text or one of the texts, every job list with a
\* test job
VerboseProviders ==
    LET VerboseLogAnswers ==
            {[ok |-> TRUE, text |-> <<>>]}
            \cup {[ok |-> TRUE, text |-> t] : t \in VerboseLogTexts}
    IN {[kind |-> "github", listing_ok |-> ok, pad |-> 0, answers |-> a] :
           ok \in BOOLEAN, a \in AnswerSeqs(VerboseLogAnswers)}
       \cup {[kind |-> "gitlab", listing_ok |-> ok, pad |-> 0, answers |-> a] :
           ok \in BOOLEAN,
           a \in AnswerSeqs({[listing |-> "ok", trace |-> t] :
                                t \in VerboseLogAnswers})}

InitImportLogs ==
    /\ DetectorUnused
    /\ AnalyzerUnused
    /\ SuggesterUnused
    /\ provider \in VerboseProviders
    /\ workflow_runs = <<>>
    /\ test_results = <<>>
    /\ api_calls = <<>>
    /\ idx = 0
    /\ ipc = "start"
    /\ min_runs = 0
    /\ ci_flaky_tests = <<>>

SpecImportLogs == InitImportLogs /\ [][NextImport]_vars

----------------------------------------------------------------------------
(* Properties of the detection session *)

IsPrefix(s, t) == Len(s) <= Len(t) /\ SubSeq(t, 1, Len(s)) = s

\* The aggregate recorded for test_id, or a fresh one when there is none
AggregateOf(res, test_id) ==
    IF IndexOf(res, test_id) = 0
    THEN FlakyTest(test_id, test_id[1], test_id[Len(test_id)])
    ELSE res[IndexOf(res, test_id)]

CountsSum(t) == t.pass_count + t.fail_count + t.error_count + t.skip_count

\* C1: after any sequence of processed runs, whatever outcome strings the
\* reports carried, every aggregate has
\* pass_count + fail_count + error_count + skip_count = len(outcomes).
C1_CountsSumToLength ==
    \A i \in DOMAIN results : CountsSum(results[i]) = Len(results[i].outcomes)

\* C2: in every reachable state every aggregate has is_flaky exactly when
\* pass_count > 0 and (fail_count > 0 or error_count > 0); an all-pass and an
\* all-fail history are not flaky.
C2_IsFlakyIffCounts ==
    \A i \in DOMAIN results :
        LET t == results[i] IN
        /\ is_flaky(t) <=>
             (t.pass_count > 0 /\ (t.fail_count > 0 \/ t.error_count > 0))
        /\ Range(t.outcomes) \subseteq {"passed"} => ~is_flaky(t)
        /\ Range(t.outcomes) \subseteq {"failed"} => ~is_flaky(t)

\* C2's case: a test that only ever passed or errored is flaky, next to one
\* that only failed and is not.
C2_Witness ==
    \E i, j \in DOMAIN results :
        /\ is_flaky(results[i])
        /\ results[i].fail_count = 0 /\ results[i].error_count > 0
        /\ results[j].outcomes = <<"failed", "failed">>
        /\ ~is_flaky(results[j])

\* The statuses a decoded result list carries for one test, in order
RECURSIVE OutcomesFor(_, _)
OutcomesFor(rs, test_id) ==
    IF rs = <<>> THEN <<>>
    ELSE (IF Head(rs).test_id = test_id THEN <<Head(rs).outcome>> ELSE <<>>)
         \o OutcomesFor(Tail(rs), test_id)

\* C6: recording creates the aggregate of a test id on first sight, appends
\* the status at the end of its outcomes and increments the matching counter;
\* over any step every earlier outcome sequence is a prefix of the later one,
\* no counter decreases, no aggregate is removed, and the aggregates of test
\* ids the run did not report are unchanged.
C6_RecordAppendsOnly ==
    [][ /\ \A i \in DOMAIN results :
             /\ i \in DOMAIN results'
             /\ results'[i].test_id = results[i].test_id
             /\ IsPrefix(results[i].outcomes, results'[i].outcomes)
             /\ results'[i].pass_count >= results[i].pass_count
             /\ results'[i].fail_count >= results[i].fail_count
             /\ results'[i].error_count >= results[i].error_count
             /\ results'[i].skip_count >= results[i].skip_count
        /\ run_num' = run_num + 1 =>
             LET rs == _execute_single_run(files', report_file) IN
             \A id \in TestIds :
                 LET new == OutcomesFor(rs, id)
                     old == AggregateOf(results, id)
                     now == AggregateOf(results', id)
                 IN IF new = <<>>
                    THEN /\ IndexOf(results', id) = IndexOf(results, id)
                         /\ now = old
                    ELSE /\ IndexOf(results', id) > 0
                         /\ now.outcomes = old.outcomes \o new
                         /\ now.pass_count = old.pass_count + Count(new, "passed")
                         /\ now.fail_count = old.fail_count + Count(new, "failed")
                         /\ now.error_count = old.error_count + Count(new, "error")
                         /\ now.skip_count = old.skip_count + Count(new, "skipped")
      ]_vars

\* C6's case: the second run appended to the first test's history and
\* created the second test's aggregate.
C6_Witness ==
    /\ run_num = 2
    /\ Len(results) = 2
    /\ results[1].outcomes = <<"passed", "failed">>
    /\ results[1].pass_count = 1 /\ results[1].fail_count = 1
    /\ results[2].outcomes = <<"skipped">>
    /\ results[2].skip_count = 1

\* C7: a run whose report is missing or malformed, the runner dying without
\* writing any report included, contributes zero outcomes: every aggregate
\* is the same after that run as before it.
C7_FailedRunAddsNothing ==
    [][ (\E w \in RunnerWrites :
            /\ ~(w.wrote /\ w.content.kind = "json")
            /\ Iteration(w))
        => results' = results ]_vars

\* C8: each runner invocation of a session is given a report location that
\* no earlier invocation of that session was given.
C8_FreshReportPath ==
    \A i, j \in DOMAIN invoked : i # j => invoked[i] # invoked[j]

\* C9: get_flaky_tests returns exactly the aggregates with is_flaky, each
\* once, in order of non-increasing flakiness_score; get_stable_tests returns
\* exactly the others; the two are disjoint and together hold every recorded
\* test exactly once.
C9_FlakyStablePartition ==
    /\ pc \in {"got_flaky", "got_stable"} =>
         /\ Range(flaky_ret) = {t \in Range(results) : is_flaky(t)}
         /\ Cardinality(Range(flaky_ret)) = Len(flaky_ret)
         /\ \A i, j \in DOMAIN flaky_ret :
                i < j => RatLeq(flakiness_score(flaky_ret[j]),
                                flakiness_score(flaky_ret[i]))
    /\ pc = "got_stable" =>
         /\ Range(stable_ret) = {t \in Range(results) : ~is_flaky(t)}
         /\ Range(flaky_ret) \cap Range(stable_ret) = {}
         /\ Range(flaky_ret) \cup Range(stable_ret) = Range(results)
         /\ Len(flaky_ret) + Len(stable_ret) = Len(results)

\* C9's case: two flaky tests, the one recorded second scoring higher, so the
\* query returns them in the other order.
C9_Witness ==
    /\ pc = "got_stable"
    /\ Len(results) = 2
    /\ Len(flaky_ret) = 2
    /\ flaky_ret[1] = results[2]
    /\ flaky_ret[2] = results[1]
    /\ RatLess(flakiness_score(flaky_ret[2]), flakiness_score(flaky_ret[1]))

\* C24: run_detection with run count N performs exactly N runner
\* invocations one after another, the report of each decoded and recorded
\* before the next starts, and then returns the aggregates; a failed or
\* report-less run neither stops the loop nor is retried.
C24_ExactlyNSequentialInvocations ==
    /\ [](/\ pc = "loop" => Len(invoked) = run_num /\ run_num <= runs
          /\ pc # "loop" => Len(invoked) = runs)
    /\ [][/\ invoked' # invoked
             => /\ pc = "loop" /\ pc' = "loop"
                /\ Len(invoked') = Len(invoked) + 1
                /\ results' = _process_results(results,
                                 _execute_single_run(files', report_file))
          /\ pc' # pc /\ pc = "loop" => results' = results]_vars

\* a detection of 2 runs has returned after 2 invocations none of which
\* left a report
C24_Witness ==
    /\ pc = "returned"
    /\ runs = 2
    /\ Len(invoked) = 2
    /\ report_file \notin DOMAIN files

----------------------------------------------------------------------------
(* Properties of the aggregates *)

\* What is said of a score computed from p passes and f fails out of total
ScoreInUnitInterval(score) ==
    RatLeq(Rat(0, 1), score) /\ RatLeq(score, Rat(1, 1))

ScoreZeroAtExtremes(score, p, f) ==
    (p = 0 \/ f = 0) => RatEq(score, Rat(0, 1))

\* C3 as stated: every aggregate's flakiness_score lies in [0,1], is 1.0
\* exactly when pass_count = fail_count (read: both positive), and is 0.0
\* whenever pass_count or fail_count is zero.
C3_ScoreOneIffEqualCounts ==
    /\ \A i \in DOMAIN results :
         LET t == results[i]  score == flakiness_score(t) IN
         /\ ScoreInUnitInterval(score)
         /\ RatEq(score, Rat(1, 1)) <=>
              (t.pass_count = t.fail_count /\ t.pass_count > 0)
         /\ ScoreZeroAtExtremes(score, t.pass_count, t.fail_count)
    /\ \A i \in DOMAIN test_results :
         LET t == test_results[i]  score == CIFlakyTest_flakiness_score(t) IN
         /\ ScoreInUnitInterval(score)
         /\ RatEq(score, Rat(1, 1)) <=>
              (t.pass_count = t.fail_count /\ t.pass_count > 0)
         /\ ScoreZeroAtExtremes(score, t.pass_count, t.fail_count)

\* C3 amended: every aggregate's flakiness_score lies in [0,1]; it is 1.0
\* exactly when pass_count = fail_count > 0 and no recorded outcome is
\* counted as anything else (pass_count + fail_count is the number of
\* recorded outcomes); it is 0.0 whenever pass_count or fail_count is zero.
C3_ScoreOneIffEvenSplitOfAll ==
    /\ \A i \in DOMAIN results :
         LET t == results[i]  score == flakiness_score(t) IN
         /\ ScoreInUnitInterval(score)
         /\ RatEq(score, Rat(1, 1)) <=>
              /\ t.pass_count = t.fail_count /\ t.pass_count > 0
              /\ t.pass_count + t.fail_count = Len(t.outcomes)
         /\ ScoreZeroAtExtremes(score, t.pass_count, t.fail_count)
    /\ \A i \in DOMAIN test_results :
         LET t == test_results[i]  score == CIFlakyTest_flakiness_score(t) IN
         /\ ScoreInUnitInterval(score)
         /\ RatEq(score, Rat(1, 1)) <=>
              /\ t.pass_count = t.fail_count /\ t.pass_count > 0
              /\ t.pass_count + t.fail_count = t.total_runs
         /\ ScoreZeroAtExtremes(score, t.pass_count, t.fail_count)

\* C3's case: an even split of four runs scores 1.0 in both aggregates
C3_Witness ==
    /\ Len(results) = 1 /\ Len(test_results) = 1
    /\ results[1].outcomes = <<"passed", "failed", "failed", "passed">>
    /\ RatEq(flakiness_score(results[1]), Rat(1, 1))
    /\ test_results[1].total_runs = 4
    /\ RatEq(CIFlakyTest_flakiness_score(test_results[1]), Rat(1, 1))

\* The aggregate of T0 after a history h went through _process_results
HistoryResults(h) == [i \in DOMAIN h |-> TestResult(T0, h[i], <<>>)]
AggregateAfter(h) == _process_results(<<>>, HistoryResults(h))[1]
Repeat(x, n) == [i \in 1..n |-> x]

\* C4: for every non-empty outcome sequence flakiness_score is
\* 2 * min(pass_count, fail_count) / len(outcomes), skips and every other
\* recorded outcome included in the denominator; an aggregate with no outcomes
\* scores 0; 2 passes + 2 fails score 1.0, 10 passes 0.0, 9 passes + 1 fail 0.2.
C4_ScoreFormula ==
    /\ \A i \in DOMAIN results :
         LET t == results[i]  total == Len(t.outcomes) IN
         total > 0 =>
           /\ RatEq(flakiness_score(t),
                    Rat(2 * Min(t.pass_count, t.fail_count), total))
           /\ RatEq(flakiness_score(t),
                    Rat(2 * Min(Count(t.outcomes, "passed"),
                                Count(t.outcomes, "failed")), total))
    /\ RatEq(flakiness_score(FlakyTest(T0, T0[1], T0[2])), Rat(0, 1))
    /\ RatEq(flakiness_score(AggregateAfter(<<"passed", "failed", "passed", "failed">>)),
             Rat(1, 1))
    /\ RatEq(flakiness_score(AggregateAfter(Repeat("passed", 10))), Rat(0, 1))
    /\ RatEq(flakiness_score(AggregateAfter(Repeat("passed", 9) \o <<"failed">>)),
             Rat(2, 10))

\* C4's case: one pass, one fail and a skip score 2/3, the skip counted in
\* the denominator only.
C4_Witness ==
    /\ Len(results) = 1
    /\ results[1].outcomes = <<"passed", "skipped", "failed">>
    /\ RatEq(flakiness_score(results[1]), Rat(2, 3))

\* The claim's rules over a P/F string s, first match wins
PatternByRules(s) ==
    IF StartsWith(s, "F") /\ "P" \in Range(s) THEN "initially_failing"
    ELSE IF StartsWith(s, "P") /\ "F" \in Range(s) THEN "initially_passing"
    ELSE IF Count(s, "F") < 3 THEN "rarely_failing"
    ELSE IF Count(s, "P") < 3 THEN "rarely_passing"
    ELSE "intermittent"

FlakyHistory(outcomes) ==
    "passed" \in Range(outcomes)
    /\ ("failed" \in Range(outcomes) \/ "error" \in Range(outcomes))

\* passed = P, failed and error = F, any other outcome given a letter that is
\* neither
LetterOf(o) ==
    IF o = "passed" THEN "P" ELSE IF o \in {"failed", "error"} THEN "F" ELSE "-"
PFKeeping(outcomes) == [i \in DOMAIN outcomes |-> LetterOf(outcomes[i])]

\* passed = P, failed and error = F, any other outcome left out of the string
IsPF(c) == c \in {"P", "F"}
PFDropping(outcomes) == SelectSeq(PFKeeping(outcomes), IsPF)

\* passed = P, every other outcome = F
PFAllElseF(outcomes) ==
    [i \in DOMAIN outcomes |-> IF outcomes[i] = "passed" THEN "P" ELSE "F"]

\* C5 as stated: failure_pattern is stable when the test is not flaky and
\* otherwise the first matching rule over the P/F string with passed = P and
\* failed and error = F, whichever way that string treats a skipped outcome,
\* which it names no letter for (left out, or neither P nor F); histories of
\* the four statuses only.
C5_PatternOverPassFailError ==
    \A i \in DOMAIN results :
        LET t == results[i] IN
        Range(t.outcomes) \subseteq Statuses =>
            IF ~FlakyHistory(t.outcomes) THEN failure_pattern(t) = "stable"
            ELSE failure_pattern(t) \in {PatternByRules(PFDropping(t.outcomes)),
                                         PatternByRules(PFKeeping(t.outcomes))}

\* C5 amended: failure_pattern is stable when the test is not flaky and
\* otherwise the first matching rule over the run-ordered string with
\* passed = P and every other outcome (failed, error, skipped, any other
\* string) = F.
C5_PatternOverPassedOrNot ==
    \A i \in DOMAIN results :
        LET t == results[i] IN
        failure_pattern(t) = IF ~FlakyHistory(t.outcomes) THEN "stable"
                             ELSE PatternByRules(PFAllElseF(t.outcomes))

\* C5's case: a flaky history whose first recorded outcome is a skip
C5_Witness ==
    /\ Len(results) = 1
    /\ results[1].outcomes = <<"skipped", "passed", "failed">>
    /\ failure_pattern(results[1]) = "initially_failing"

\* C10: for every sequence of statuses from {passed, failed, error, skipped},
\* recorded for one test by the detector and by a CI import, the local and
\* the CI aggregate have the same flakiness_score and the same is_flaky.
C10_LocalAndCIAgree ==
    (results # <<>> /\ Range(results[1].outcomes) \subseteq Statuses) =>
        /\ Len(results) = 1 /\ Len(test_results) = 1
        /\ RatEq(flakiness_score(results[1]),
                 CIFlakyTest_flakiness_score(test_results[1]))
        /\ is_flaky(results[1]) <=> CIFlakyTest_is_flaky(test_results[1])

\* C27: for every reachable local aggregate failure_pattern is one of
\* stable, initially_failing, initially_passing: the string of a flaky
\* history starts with P or F and holds both letters, so rarely_failing,
\* rarely_passing and intermittent are never returned.
C27_OnlyThreeTags ==
    \A i \in DOMAIN results :
        LET t == results[i]  s == outcomes_str(t.outcomes) IN
        /\ failure_pattern(t) \in {"stable", "initially_failing",
                                   "initially_passing"}
        /\ is_flaky(t) => /\ s[1] \in {"P", "F"}
                          /\ {"P", "F"} \subseteq Range(s)

\* a flaky history of one failure among three passes, which the rule on the
\* number of failures never gets to tag
C27_Witness ==
    /\ Len(results) = 1
    /\ results[1].outcomes = <<"passed", "passed", "failed", "passed">>
    /\ failure_pattern(results[1]) = "initially_passing"

\* C28: in failure_pattern every outcome other than passed, skipped
\* included, is written F: a flaky history whose first recorded outcome is
\* skipped is tagged initially_failing, and a flaky history that starts with
\* passed is tagged initially_passing even if its only non-pass outcomes
\* before the end are skips.
C28_SkippedWrittenF ==
    \A i \in DOMAIN results :
        LET t == results[i]  s == outcomes_str(t.outcomes) IN
        /\ \A k \in DOMAIN t.outcomes :
              s[k] = IF t.outcomes[k] = "passed" THEN "P" ELSE "F"
        /\ FlakyHistory(t.outcomes)
           => /\ t.outcomes[1] = "skipped"
                 => failure_pattern(t) = "initially_failing"
              /\ t.outcomes[1] # "passed"
                 => failure_pattern(t) = "initially_failing"
              /\ t.outcomes[1] = "passed"
                 => failure_pattern(t) = "initially_passing"

\* a flaky history that starts with passed and whose only non-pass outcomes
\* before the last are skips
C28_Witness ==
    /\ Len(results) = 1
    /\ results[1].outcomes = <<"passed", "skipped", "skipped", "failed">>
    /\ failure_pattern(results[1]) = "initially_passing"

\* the aggregates whose recorded outcomes are passed and error, both
PassedAndErrorOnly ==
    {i \in DOMAIN results : Range(results[i].outcomes) = {"passed", "error"}}

\* C29: in the local aggregate error outcomes count toward the denominator
\* of flakiness_score but not toward its fail ratio: an aggregate whose
\* outcomes are only passed and error has is_flaky true and flakiness_score
\* 0.0, so is_flaky does not imply a positive score and get_flaky_tests
\* returns tests scoring 0.
C29_ErrorOnlyFlakyScoresZero ==
    /\ \A i \in DOMAIN results :
          LET t == results[i] IN
          Len(t.outcomes) > 0
          => RatEq(flakiness_score(t),
                   Rat(2 * Min(Count(t.outcomes, "passed"),
                               Count(t.outcomes, "failed")),
                       Len(t.outcomes)))
    /\ \A i \in PassedAndErrorOnly :
          /\ is_flaky(results[i])
          /\ RatEq(flakiness_score(results[i]), Rat(0, 1))
          /\ pc \in {"got_flaky", "got_stable"}
             => results[i] \in Range(flaky_ret)

\* get_flaky_tests has returned a test of outcomes passed and error, whose
\* score is 0
C29_Witness ==
    /\ pc = "got_flaky"
    /\ \E k \in DOMAIN flaky_ret :
          /\ flaky_ret[k].outcomes = <<"passed", "error">>
          /\ is_flaky(flaky_ret[k])
          /\ RatEq(flakiness_score(flaky_ret[k]), Rat(0, 1))

----------------------------------------------------------------------------
(* Properties of the root-cause analyzer *)

\* the file holds a definition, of either kind, with this name
DefinedIn(file, func_name) ==
    \E k \in 1..Len(file.defs) : file.defs[k].name = func_name

\* the file exists and ast.parse accepts it
Parseable(file) == file.exists /\ file.syntax_ok

\* a cause of category unknown with no evidence
IsUnknown(c) ==
    c.type = "unknown" /\ c.line_numbers = <<>> /\ c.code_snippets = <<>>

\* C11: when the file cannot be parsed, or the named function is not in it,
\* analyze returns exactly one cause, of category unknown, with empty
\* evidence and confidence 0.0 or 0.1 -- never an empty list.
C11_UnresolvedGivesOneUnknown ==
    (/\ apc = "analyzed"
     /\ \/ ~Parseable(analyzer_test_file)
        \/ ~DefinedIn(analyzer_test_file, test_function_name))
    => /\ Len(causes) = 1
       /\ IsUnknown(causes[1])
       /\ \/ RatEq(causes[1].confidence, Rat(0, 100))
          \/ RatEq(causes[1].confidence, Rat(10, 100))


\* the positions of the "def" statements with this name
ResolvedDefs(file, func_name) ==
    {k \in 1..Len(file.defs) :
        file.defs[k].kind = "FunctionDef" /\ file.defs[k].name = func_name}

\* the span of the named function resolves
Resolves(file, func_name) ==
    Parseable(file) /\ ResolvedDefs(file, func_name) # {}

\* the definition the span is taken from: the first one
SpanOf(file, func_name) ==
    file.defs[CHOOSE k \in ResolvedDefs(file, func_name) :
                 \A j \in ResolvedDefs(file, func_name) : k <= j]

\* analyze has returned for a function whose span resolved
AnalyzedResolved ==
    apc = "analyzed" /\ Resolves(analyzer_test_file, test_function_name)

\* the span analyze worked on
Span == SpanOf(analyzer_test_file, test_function_name)

\* The seven categories in the order of the table: type, indicators, confidence
Categories ==
    << [type |-> "time_dependent", patterns |-> TIME_PATTERNS,
        confidence |-> Rat(90, 100)],
       [type |-> "random_dependent", patterns |-> RANDOM_PATTERNS,
        confidence |-> Rat(95, 100)],
       [type |-> "concurrency", patterns |-> CONCURRENCY_PATTERNS,
        confidence |-> Rat(80, 100)],
       [type |-> "unordered_collection", patterns |-> ORDER_PATTERNS,
        confidence |-> Rat(70, 100)],
       [type |-> "external_dependency", patterns |-> EXTERNAL_PATTERNS,
        confidence |-> Rat(60, 100)],
       [type |-> "floating_point", patterns |-> FLOAT_PATTERNS,
        confidence |-> Rat(85, 100)],
       [type |-> "global_state", patterns |-> GLOBAL_STATE_PATTERNS,
        confidence |-> Rat(75, 100)] >>

\* the line matches one of the category's indicators
LineIndicates(cat, line) ==
    \E k \in 1..Len(cat.patterns) : re_search(cat.patterns[k], line)

\* the lines of the span, by position, that match the category
IndicatingLines(cat, span) ==
    {i \in 1..Len(span.segment) : LineIndicates(cat, span.segment[i])}

\* no line of the span matches any category
NothingIndicated(span) ==
    \A c \in 1..Len(Categories) : IndicatingLines(Categories[c], span) = {}

\* C12: when the span resolves the result is never empty, and when moreover
\* no line matches any category it is exactly one cause: unknown,
\* confidence 0.1, empty evidence.
C12_NoMatchGivesOneUnknown ==
    AnalyzedResolved
    => /\ causes # <<>>
       /\ NothingIndicated(Span)
          => /\ Len(causes) = 1
             /\ IsUnknown(causes[1])
             /\ RatEq(causes[1].confidence, Rat(10, 100))

\* analyze returned the unknown cause for a two-line body without indicators
C12_Witness ==
    /\ AnalyzedResolved
    /\ NothingIndicated(Span)
    /\ Len(Span.segment) = 3
    /\ Len(causes) = 1
    /\ causes[1].type = "unknown"


\* the positions in the result of the causes of this type
CausesOfType(type) == {k \in 1..Len(causes) : causes[k].type = type}

\* C13: for each of the seven categories on its own, the result holds exactly
\* one cause of the category when at least one line of the span matches one
\* of its indicators, with the category's fixed confidence, and none
\* otherwise -- whatever the number of matching lines and the other
\* categories matched.
C13_OneCausePerMatchedCategory ==
    AnalyzedResolved
    => \A c \in 1..Len(Categories) :
          LET cat == Categories[c]
          IN IF IndicatingLines(cat, Span) # {}
             THEN /\ Cardinality(CausesOfType(cat.type)) = 1
                  /\ \A k \in CausesOfType(cat.type) :
                        RatEq(causes[k].confidence, cat.confidence)
             ELSE CausesOfType(cat.type) = {}

\* a span where two lines match one category and another category matches too
C13_Witness ==
    /\ AnalyzedResolved
    /\ Len(causes) >= 2
    /\ \E k \in 1..Len(causes) : Len(causes[k].line_numbers) = 2

\* the position of a type in the order of the checks
CategoryIndex(type) ==
    CHOOSE c \in 1..Len(Categories) : Categories[c].type = type

\* C14: the causes appear in the order of the category checks (time, random,
\* concurrency, unordered-collection, external-dependency, floating-point,
\* global-state), wherever in the span their matching lines are.
C14_CausesInCheckOrder ==
    (AnalyzedResolved /\ ~NothingIndicated(Span))
    => \A i, j \in 1..Len(causes) :
          i < j => CategoryIndex(causes[i].type) < CategoryIndex(causes[j].type)

\* the first cause's evidence lies after the second cause's in the span
C14_Witness ==
    /\ AnalyzedResolved
    /\ Len(causes) >= 2
    /\ causes[1].line_numbers[1] > causes[2].line_numbers[1]

\* C15: every evidence line number of every cause lies within the span of
\* the analyzed function: start_line <= n <= start_line + (span lines) - 1.
C15_EvidenceWithinSpan ==
    AnalyzedResolved
    => \A k \in 1..Len(causes) :
          \A e \in 1..Len(causes[k].line_numbers) :
             /\ Span.lineno <= causes[k].line_numbers[e]
             /\ causes[k].line_numbers[e]
                   <= Span.lineno + Len(Span.segment) - 1

\* the last line of a span that does not start the file is evidence
C15_Witness ==
    /\ AnalyzedResolved
    /\ Span.lineno > 1
    /\ \E k \in 1..Len(causes) :
          \E e \in 1..Len(causes[k].line_numbers) :
             causes[k].line_numbers[e] = Span.lineno + Len(Span.segment) - 1


\* the indicators of the category that the line matches
IndicatorsMatched(cat, line) ==
    {k \in 1..Len(cat.patterns) : re_search(cat.patterns[k], line)}

\* C26: within one RootCause each span line contributes at most one
\* evidence entry, even if it matches several indicators of the category:
\* the evidence line numbers are strictly increasing, and line_numbers and
\* code_snippets have the same length.
C26_OneEvidencePerLine ==
    apc = "analyzed"
    => \A k \in 1..Len(causes) :
          /\ \A d, e \in 1..Len(causes[k].line_numbers) :
                d < e => causes[k].line_numbers[d] < causes[k].line_numbers[e]
          /\ Len(causes[k].line_numbers) = Len(causes[k].code_snippets)
          /\ Resolves(analyzer_test_file, test_function_name)
             => Len(causes[k].line_numbers) <= Len(Span.segment)

\* both lines of the body match two indicators of external_dependency, and
\* the cause has two evidence entries
C26_Witness ==
    /\ AnalyzedResolved
    /\ \E k \in 1..Len(causes) :
          /\ causes[k].type = "external_dependency"
          /\ Len(causes[k].line_numbers) = 2
          /\ \A e \in 1..2 :
                Cardinality(IndicatorsMatched(
                    [patterns |-> EXTERNAL_PATTERNS],
                    Span.segment[causes[k].line_numbers[e] - Span.lineno + 1])) >= 2

----------------------------------------------------------------------------
(* Properties of the repair suggester *)

\* C16: for every list of causes, no two suggestions returned by
\* suggest_repairs share a title, and their priorities are non-decreasing
\* from first to last.
C16_UniqueTitlesSortedByPriority ==
    spc = "suggested"
    => /\ \A i, j \in 1..Len(suggestions) :
             i # j => suggestions[i].title # suggestions[j].title
       /\ \A i, j \in 1..Len(suggestions) :
             i < j => suggestions[i].priority <= suggestions[j].priority

\* a list with a repeated type and a second type behind it, whose priority-2
\* suggestion has to move behind the priority-1 suggestions of the other
C16_Witness ==
    /\ spc = "suggested"
    /\ Len(given_causes) = 3
    /\ given_causes[1].type = "random_dependent"
    /\ given_causes[2].type = "random_dependent"
    /\ given_causes[3].type = "time_dependent"
    /\ Len(suggestions) = 5
    /\ suggestions[5].title = "Mock random module"

\* The catalog: the seven categories and their lists
Catalog ==
    << [type |-> "time_dependent", fixes |-> _suggest_time_fixes],
       [type |-> "random_dependent", fixes |-> _suggest_random_fixes],
       [type |-> "concurrency", fixes |-> _suggest_concurrency_fixes],
       [type |-> "unordered_collection", fixes |-> _suggest_order_fixes],
       [type |-> "external_dependency", fixes |-> _suggest_external_fixes],
       [type |-> "floating_point", fixes |-> _suggest_float_fixes],
       [type |-> "global_state", fixes |-> _suggest_global_state_fixes] >>

\* the types among the causes given
TypesPresent == {given_causes[k].type : k \in 1..Len(given_causes)}

\* C17: the set of suggestions returned is exactly the union of the catalog
\* lists of the categories present among the causes; each of the seven lists
\* has 2 or 3 suggestions, of priority 1, 2 or 3; a cause of any other type
\* contributes nothing.
C17_UnionOfCatalogLists ==
    spc = "suggested"
    => /\ Range(suggestions)
            = UNION {Range(Catalog[c].fixes) :
                        c \in {d \in 1..Len(Catalog) :
                                  Catalog[d].type \in TypesPresent}}
       /\ \A c \in 1..Len(Catalog) :
             /\ Len(Catalog[c].fixes) \in {2, 3}
             /\ \A k \in 1..Len(Catalog[c].fixes) :
                   Catalog[c].fixes[k].priority \in {1, 2, 3}

\* two categories and the unknown cause between them
C17_Witness ==
    /\ spc = "suggested"
    /\ Len(given_causes) = 3
    /\ given_causes[1].type = "floating_point"
    /\ given_causes[2].type = "unknown"
    /\ given_causes[3].type = "global_state"
    /\ Len(suggestions) = 5

\* the position in the catalog of the category whose list holds s
CategoryOf(s) ==
    CHOOSE c \in 1..Len(Catalog) : s \in Range(Catalog[c].fixes)

\* the position of s in the list of its category
CatalogPosition(s) ==
    CHOOSE k \in 1..Len(Catalog[CategoryOf(s)].fixes) :
        Catalog[CategoryOf(s)].fixes[k] = s

\* the position of the first cause given whose category holds s
FirstAppearance(s) ==
    CHOOSE k \in 1..Len(given_causes) :
        /\ given_causes[k].type = Catalog[CategoryOf(s)].type
        /\ \A l \in 1..(k - 1) : given_causes[l].type # given_causes[k].type

\* C25: suggest_repairs keeps the first occurrence of each title and sorts
\* stably: among the returned suggestions of equal priority, the relative
\* order is the order in which their categories first appear among the
\* causes given and, within one category, the catalog order.
C25_FirstOccurrenceStableOrder ==
    spc = "suggested"
    => \A i, j \in 1..Len(suggestions) :
          (i < j /\ suggestions[i].priority = suggestions[j].priority)
          => \/ FirstAppearance(suggestions[i]) < FirstAppearance(suggestions[j])
             \/ /\ CategoryOf(suggestions[i]) = CategoryOf(suggestions[j])
                /\ CatalogPosition(suggestions[i]) < CatalogPosition(suggestions[j])

\* concurrency is given before and behind time_dependent: the suggestions
\* of priority 1 of concurrency come first, in catalog order, then those of
\* time_dependent
C25_Witness ==
    /\ spc = "suggested"
    /\ Len(given_causes) = 3
    /\ given_causes[1].type = "concurrency"
    /\ given_causes[2].type = "time_dependent"
    /\ given_causes[3].type = "concurrency"
    /\ \E i, j \in 1..Len(suggestions) :
          /\ i < j
          /\ suggestions[i].priority = suggestions[j].priority
          /\ Catalog[CategoryOf(suggestions[i])].type = "concurrency"
          /\ Catalog[CategoryOf(suggestions[j])].type = "time_dependent"
    /\ \E i, j \in 1..Len(suggestions) :
          /\ i < j
          /\ suggestions[i].priority = suggestions[j].priority
          /\ suggestions[i] = _suggest_concurrency_fixes[1]
          /\ suggestions[j] = _suggest_concurrency_fixes[2]


\* cs with cause put in behind its first p entries
AddedBehind(cs, p, cause) ==
    SubSeq(cs, 1, p) \o <<cause>> \o SubSeq(cs, p + 1, Len(cs))

\* the positions behind the first cause of the given type
BehindFirst(type) ==
    {p \in 1..Len(given_causes) :
        \E k \in 1..p : given_causes[k].type = type}

\* C30 as stated: suggest_repairs is insensitive to repeated causes: for
\* the list c of causes given, suggest_repairs(c ++ c) equals
\* suggest_repairs(c), and adding a second cause of a category already
\* present, wherever in the list, never changes the result.
C30_AddedAnywhereChangesNothing ==
    spc = "suggested"
    => /\ suggest_repairs(given_causes \o given_causes) = suggestions
       /\ \A type \in TypesPresent :
             \A p \in 0..Len(given_causes) :
                suggest_repairs(AddedBehind(given_causes, p, CauseOfType(type)))
                   = suggestions

\* C30, amended: for the list c of causes given, suggest_repairs(c ++ c)
\* equals suggest_repairs(c), and a second cause of a category already
\* present, added at the end or
\* anywhere behind the first cause of that category, does not change the
\* result.
C30_RepeatedCausesChangeNothing ==
    spc = "suggested"
    => /\ suggest_repairs(given_causes \o given_causes) = suggestions
       /\ \A type \in TypesPresent :
             \A p \in BehindFirst(type) :
                suggest_repairs(AddedBehind(given_causes, p, CauseOfType(type)))
                   = suggestions

\* three causes of three categories have given eight suggestions
C30_Witness ==
    /\ spc = "suggested"
    /\ Len(given_causes) = 3
    /\ Cardinality(TypesPresent) = 3
    /\ "unknown" \notin TypesPresent
    /\ Len(suggestions) = 8
    /\ Len(ExtendAll(given_causes \o given_causes)) = 16

----------------------------------------------------------------------------
(* Properties of the CI import *)

\* the aggregates of the mapping that get_flaky_tests has to return
FlakyWithEnoughRuns ==
    {test_results[k] : k \in {j \in 1..Len(test_results) :
        /\ test_results[j].total_runs >= min_runs
        /\ test_results[j].pass_count > 0
        /\ test_results[j].fail_count > 0}}

\* C18: get_flaky_tests(test_results, min_runs) returns exactly the
\* aggregates with total_runs >= min_runs that are flaky, each once, in the
\* order of non-increasing flakiness_score; with min_runs = 3 no aggregate
\* of fewer than 3 runs is returned.
C18_FlakyWithMinRunsByScore ==
    ipc = "filtered"
    => /\ Range(ci_flaky_tests) = FlakyWithEnoughRuns
       /\ Len(ci_flaky_tests) = Cardinality(FlakyWithEnoughRuns)
       /\ \A i, j \in 1..Len(ci_flaky_tests) :
             i < j => RatLeq(CIFlakyTest_flakiness_score(ci_flaky_tests[j]),
                             CIFlakyTest_flakiness_score(ci_flaky_tests[i]))
       /\ min_runs = 3
          => \A i \in 1..Len(ci_flaky_tests) : ci_flaky_tests[i].total_runs >= 3

\* with min_runs = 3, a flaky aggregate of 3 runs is returned and a flaky
\* aggregate of 2 runs is not
C18_Witness ==
    /\ ipc = "filtered"
    /\ min_runs = 3
    /\ Len(ci_flaky_tests) = 1
    /\ \E k \in 1..Len(test_results) :
          /\ test_results[k].total_runs = 2
          /\ test_results[k].pass_count = 1
          /\ test_results[k].fail_count = 1


\* the first 20 executions of the fetched list
First20 == SubSeq(workflow_runs, 1, Min(Len(workflow_runs), 20))

\* the ids of the first 20 executions
First20Ids == {First20[k].id : k \in 1..Len(First20)}

\* the ids of the jobs of the first 20 pipelines
First20JobIds ==
    UNION {{First20[k].jobs.list[j].id : j \in 1..Len(First20[k].jobs.list)} :
              k \in {i \in 1..Len(First20) : provider.kind = "gitlab"}}

\* the requests of a kind among those issued
CallsOfKind(kind) == {k \in 1..Len(api_calls) : api_calls[k][1] = kind}

\* C19: one import goes through at most 20 executions, the first 20 of the
\* fetched list: every log request (GitHub: the run's logs; GitLab: the
\* pipeline's jobs and the job's trace) is about one of them, there are at
\* most 20 of each kind, and every run recorded in an aggregate is one of
\* them.
C19_AtMostFirst20Executions ==
    /\ idx <= 20
    /\ \A kind \in {"logs", "jobs", "trace"} :
          Cardinality(CallsOfKind(kind)) <= 20
    /\ \A k \in 1..Len(api_calls) :
          /\ api_calls[k][1] \in {"logs", "jobs"} => api_calls[k][2] \in First20Ids
          /\ api_calls[k][1] = "trace" => api_calls[k][2] \in First20JobIds
    /\ ipc \in {"loop", "returned", "filtered"}
       => \A t \in 1..Len(test_results) :
             \A r \in 1..Len(test_results[t].runs) :
                test_results[t].runs[r].run_id \in First20Ids

\* the import returned on a list of 22 executions, the last two of which
\* have a log with results, after 20 log requests
C19_Witness ==
    /\ ipc = "returned"
    /\ Len(workflow_runs) = 22
    /\ idx = 20
    /\ provider.kind = "github"
    /\ Cardinality(CallsOfKind("logs")) = 20
    /\ \A k \in 21..22 :
          /\ workflow_runs[k].logs.ok
          /\ workflow_runs[k].logs.text # <<>>

\* what the requests for the log of an execution end with: GitHub, the
\* logs of the run; GitLab, the trace of the first test job, if the jobs
\* are listed and one of them is a test job
LogUnavailable(kind, execution) ==
    IF kind = "github"
    THEN ~execution.logs.ok \/ execution.logs.text = <<>>
    ELSE LET jobs == execution.jobs.list
             test_jobs == {j \in 1..Len(jobs) : IsTestJob(jobs[j])}
         IN \/ ~execution.jobs.ok
            \/ test_jobs = {}
            \/ LET first == CHOOSE j \in test_jobs : \A i \in test_jobs : j <= i
               IN ~jobs[first].trace.ok \/ jobs[first].trace.text = <<>>

\* C20: an iteration over an execution whose log cannot be fetched leaves
\* every aggregate as it was and the import goes on to the next execution;
\* an import whose listing of executions failed returns the empty mapping.
C20_UnavailableLogSkipped ==
    /\ []((ipc = "returned" /\ ~provider.listing_ok) => test_results = <<>>)
    /\ [][(/\ ipc = "loop"
           /\ idx < Len(First20)
           /\ LogUnavailable(provider.kind, First20[idx + 1]))
          => /\ test_results' = test_results
             /\ idx' = idx + 1
             /\ ipc' = "loop"]_vars

\* the import returned aggregates holding a run that came after an
\* execution without a log
C20_Witness ==
    /\ ipc = "returned"
    /\ \E k \in 1..Len(First20) :
          /\ LogUnavailable(provider.kind, First20[k])
          /\ \E t \in 1..Len(test_results) :
                \E r \in 1..Len(test_results[t].runs) :
                   test_results[t].runs[r].run_number > First20[k].id


\* the statuses of the four keywords, lower-cased
KeywordStatuses == {<<"passed">>, <<"failed">>, <<"skipped">>, <<"error">>}

\* the first token of the line contains "::" and the token following it is
\* one of the status keywords
NodeIdThenKeyword(line) ==
    /\ Len(line) >= 2
    /\ Len(line[1]) >= 2
    /\ \E w \in StatusKeywords : line[2] = <<w>>

\* the texts the provider answers the log requests with
AnsweredTexts ==
    {(IF provider.kind = "github" THEN provider.answers[k]
      ELSE provider.answers[k].trace).text : k \in 1..Len(provider.answers)}

\* the lines of the answered texts
AnsweredLines == UNION {Range(t) : t \in AnsweredTexts}

\* C21: parse_pytest_output produces a record from a line only if the
\* line's first token contains "::" and the token following it is one of
\* PASSED, FAILED, SKIPPED, ERROR; the status is that keyword lower-cased,
\* so every status extracted, and recorded by the import, is one of passed,
\* failed, skipped, error.
C21_RecordOnlyFromKeywordLines ==
    ipc = "returned"
    => /\ \A line \in AnsweredLines :
             ParseLine(line) # <<>>
             => /\ NodeIdThenKeyword(line)
                /\ ParseLine(line)[1].status = LowerToken(line[2])
                /\ ParseLine(line)[1].status \in KeywordStatuses
       /\ \A i \in 1..Len(test_results) :
             \A j \in 1..Len(test_results[i].runs) :
                test_results[i].runs[j].status \in KeywordStatuses


\* C22: after any CI import every CI aggregate is consistent: total_runs is
\* the number of provenance records in runs, one per counted outcome and
\* each of the aggregate's test, and
\* pass_count + fail_count + skip_count = total_runs.
C22_CIAggregateConsistent ==
    ipc = "returned"
    => \A i \in 1..Len(test_results) :
          LET t == test_results[i] IN
          /\ t.total_runs = Len(t.runs)
          /\ \A j \in 1..Len(t.runs) : t.runs[j].test_name = t.test_name
          /\ t.pass_count + t.fail_count + t.skip_count = t.total_runs


\* the records extracted from the logs the import has read
ImportedRecords ==
    LET answer(k) == IF provider.kind = "github" THEN provider.answers[k]
                     ELSE provider.answers[k].trace
        read == {k \in 1..Len(provider.answers) :
                    /\ provider.listing_ok
                    /\ provider.pad + k <= RunCap
                    /\ answer(k).ok}
        padding == IF provider.listing_ok /\ provider.pad > 0
                   THEN {PadLog.text} ELSE {}
    IN UNION {Range(parse_pytest_output(t)) :
                 t \in {answer(k).text : k \in read} \cup padding}

\* the full test ids whose outcomes went into the aggregate named test_name
IdsAccumulatedIn(test_name) ==
    {rec.test_id : rec \in {r \in ImportedRecords : r.test_name = test_name}}

\* C23: the mapping a CI import returns holds one aggregate per full test
\* id: outcomes extracted for two different test ids, such as the same
\* function name in two files, are never accumulated into one aggregate.
C23_OneAggregatePerTestId ==
    ipc = "returned"
    => /\ Len(test_results) = Cardinality({rec.test_id : rec \in ImportedRecords})
       /\ \A i \in 1..Len(test_results) :
             Cardinality(IdsAccumulatedIn(test_results[i].test_name)) <= 1

====
